---- MODULE Spec2Model ----
(***************************************************************************)
(* Verification model of the enhanced-tcr-udp server and client:           *)
(*   - the per-match session engine (internal/server/game_session.go),     *)
(*   - the combat and targeting rules (internal/game),                     *)
(*   - the matchmaking rendezvous and result delivery (internal/server),   *)
(*   - the client's deploy-command resend table (internal/client).         *)
(* Time is counted in units of 500 ms, the period of the session ticker.   *)
(***************************************************************************)
EXTENDS Integers, Sequences, FiniteSets, TLC

(* ------------------------------------------------------------------ *)
(* Program constants                                                   *)
(* ------------------------------------------------------------------ *)
InitialMana == 5
MaxMana == 10
RegenInterval == 4
AttackInterval == 4
MatchDuration == 360
QueueCap == 10
QueenHeal == 300
WinBonus == 30
DrawBonus == 10
BaseExp == 100
MaxResends == 3
ResendTimeout == 2

(* ------------------------------------------------------------------ *)
(* Bounds of the exploration                                           *)
(* ------------------------------------------------------------------ *)
MaxRecv == 2
MaxClock == 8
MaxSeq == 2
MaxCallers == 4
MatchCallers == 3
LiveCallers == 3
MaxCmds == 2
ClientClock == 10
ManaClock == 24
ManaRecv == 2
KingClock == 16
KingRecv == 2
QueenClock == 8
QueenRecv == 2
MaxStat == 6          \* CalculateDamage is followed for ATK and DEF in -MaxStat..MaxStat
StrayClock == 4
QueueRecv == 12
DeadlineLead == 4      \* the last ticks of a match are followed from this long before the deadline
DeadlineRecv == 2
StrayRecv == 3
MaxTroops == 3        \* FindTroopToAttack is followed for up to MaxTroops opposing troops
MaxDeployTime == 2    \* deployed at times 0..MaxDeployTime
MaxLevel == 3         \* UpdatePlayerAfterGame is followed for accounts of level 1..MaxLevel
EndgameStart == 40    \* the late-match session starts at 20 s
EndgameRecv == 2
EndgameLength == 6    \* and is followed tick by tick for 3 s
RetryRecv == 2        \* the deploy datagram and one retransmission of it
RetryClock == 13      \* long enough for three regenerations
NameRecv == 1
NameClock == 9        \* two attack intervals
MaxConns == 3         \* TCP connections accepted by the server

(* ------------------------------------------------------------------ *)
(* Session inputs: the two accounts and the loaded configuration       *)
(* ------------------------------------------------------------------ *)
P1 == "p1"
P2 == "p2"
Players == {P1, P2}
Stranger == "px"
Tokens == {P1, P2, Stranger}
SessionID == "g1"
OtherSessionID == "g0"
NoAddr == "none"
AddrOf(sender) == IF sender = P1 THEN "a1" ELSE IF sender = P2 THEN "a2" ELSE "ax"

King == "king_tower"
Guard1 == "guard_tower_1"
Guard2 == "guard_tower_2"
TowerSpecIDs == {King, Guard1, Guard2}

ConfigTowers ==
    (King   :> [Name |-> "King Tower",    BaseHP |-> 500, BaseATK |-> 100, BaseDEF |-> 100, Crit |-> "some", EXPYield |-> 200]) @@
    (Guard1 :> [Name |-> "Guard Tower 1", BaseHP |-> 300, BaseATK |-> 100, BaseDEF |-> 0,   Crit |-> "never", EXPYield |-> 100]) @@
    (Guard2 :> [Name |-> "Guard Tower 2", BaseHP |-> 300, BaseATK |-> 100, BaseDEF |-> 0,   Crit |-> "never", EXPYield |-> 100])

ConfigTroops ==
    ("pawn"  :> [ID |-> "pawn",  ManaCost |-> 3, BaseHP |-> 250, BaseATK |-> 300, BaseDEF |-> 0]) @@
    ("queen" :> [ID |-> "queen", ManaCost |-> 5, BaseHP |-> 0,   BaseATK |-> 0,   BaseDEF |-> 0]) @@
    ("knight" :> [ID |-> "knight", ManaCost |-> 4, BaseHP |-> 700, BaseATK |-> 160, BaseDEF |-> 0])

TroopChoices == {"pawn", "queen", "ghost"}

TowerIds == Players \X TowerSpecIDs
OwnerOf(tw) == tw[1]
SpecOf(tw) == tw[2]
OtherPlayer(p) == IF p = P1 THEN P2 ELSE P1

RECURSIVE Pow(_, _)
Pow(b, e) == IF e = 0 THEN 1 ELSE b * Pow(b, e - 1)

(* int(float64(base) * 1.1^(level-1)) *)
ScaleStat(base, level) ==
    IF level <= 1 THEN base ELSE (base * Pow(11, level - 1)) \div Pow(10, level - 1)

(* fmt.Sprintf("%s_%s", prefix, lower(replace(name, " ", "_"))) *)
Slug(name) ==
    CASE name = "King Tower"    -> "king_tower"
      [] name = "Guard Tower 1" -> "guard_tower_1"
      [] name = "Guard Tower 2" -> "guard_tower_2"
      [] name = "Guard Tower"   -> "guard_tower"
      [] OTHER                  -> name

(* the display names of the loaded tower specs *)
ConfigNames == [s \in TowerSpecIDs |-> ConfigTowers[s].Name]

VARIABLES
    now,              \* wall clock, in ticker periods
    level,            \* persistent level of each player at session start
    account,          \* Player.Account: [EXP, Level]
    mana,             \* PlayerInGame.CurrentMana
    towers,           \* tower instances: [hp, destroyed]
    towerOrder,       \* order of each player's Towers slice (map iteration at init)
    towerName,        \* gs.Config.Towers[spec].Name of each tower spec
    troopObj,         \* ActiveTroop objects by instance id
    activeTroops,     \* gs.activeTroops (ids)
    deployedTroops,   \* PlayerInGame.DeployedTroops (ids)
    lastManaRegen,
    lastTroopAttack,
    lastTowerAttack,
    quit,             \* player1Quit / player2Quit
    processed,        \* processedDeployCommands
    addrs,            \* playerClientAddresses
    playerActions,    \* the command channel
    isGameOver,
    loopDone,         \* Start() has returned
    endReason,        \* reason given to determineWinnerAndStop
    resultsChan,      \* buffered results channel of the session
    udpOpen,          \* the session's UDP listener is open
    concludeCount,    \* how many times the concluding step ran
    sent,             \* events and acks written by the last step
    snapshot,         \* state snapshot broadcast by the last tick
    nextTroop,        \* next troop instance number
    net,              \* datagrams the clients and the network can deliver
    recvLeft,         \* how many more datagrams the exploration delivers
    horizon,          \* last time up to which the exploration follows every tick
    pc,               \* where each caller is in HandleMatchmakingRequest
    arrived,          \* how many callers have called so far
    mqBuf,            \* matchmakingQueue: the buffer (capacity 1)
    mqSendq,          \* matchmakingQueue: senders parked on a full buffer
    waitingPlayer,    \* the entry a caller took out of the queue
    MatchedChan,      \* per entry: closed
    GameConcludedChan,\* per entry: number of times closed
    sessions,         \* GlobalSessionManager.sessions, with each session's state
    gameResults,      \* per game: the results channel handed to the session
    task,             \* per game: where handleGameResults is
    taskInfo,         \* per game: the resultInfo handleGameResults received
    tcpOut,           \* per caller: messages written to the TCP connection
    connOpen,         \* per caller: the TCP connection is open
    began,            \* per caller: how many had called when it began to wait
    peerGone,         \* per caller: the client side has dropped the connection
    callers,          \* how many callers the exploration brings
    cnow,             \* the client's clock, in ticker periods of manageResends
    nextSequenceNumber,
    unacknowledgedDeployCommands,  \* Seq -> [Message, SentAt, RetryCount]
    allocated,        \* sequence numbers taken by calls that have not yet written
    transmissions,    \* per sequence number: datagrams written so far
    acked,            \* sequence numbers whose command-ack the listener has read
    failures,         \* sequence numbers whose give-up message the UI was given
    uiLog,            \* kinds of server datagrams the listener has shown
    calc,             \* one call of CalculateDamage: its arguments, the draw, its result
    upd,              \* one call of UpdatePlayerAfterGame: the account, the award, the result
    find,             \* one call of FindTroopToAttack or FindLowestHPTower
    activeUsers,      \* AuthManager: username -> clientID
    accountFiles,     \* persistence: username -> stored password
    conns             \* handleConnection per TCP connection: where it is and what it read

svars == <<now, level, account, mana, towers, towerOrder, towerName, troopObj, activeTroops,
           deployedTroops, lastManaRegen, lastTroopAttack, lastTowerAttack, quit,
           processed, addrs, playerActions, isGameOver, loopDone, endReason,
           resultsChan, udpOpen, concludeCount, sent, snapshot, nextTroop,
           net, recvLeft, horizon>>
mvars == <<pc, arrived, mqBuf, mqSendq, waitingPlayer, MatchedChan, GameConcludedChan,
           sessions, gameResults, task, taskInfo, tcpOut, connOpen, began,
           peerGone, callers>>
cvars == <<cnow, nextSequenceNumber, unacknowledgedDeployCommands, allocated, transmissions,
           acked, failures, uiLog>>
dvars == <<calc, upd, find>>
avars == <<activeUsers, accountFiles, conns>>
vars == <<svars, mvars, cvars, dvars, avars>>

(* initializePlayerTowers: <<playerPrefix, name part>> of a tower instance *)
GameSpecificID(tw) ==
    <<IF OwnerOf(tw) = P1 THEN "player1" ELSE "player2",
      IF towerName[SpecOf(tw)] = "" THEN SpecOf(tw) ELSE Slug(towerName[SpecOf(tw)])>>

(* the keys of gs.lastTowerAttack *)
GSIDs == {GameSpecificID(tw) : tw \in TowerIds}

(* ------------------------------------------------------------------ *)
(* internal/game: combat                                               *)
(* ------------------------------------------------------------------ *)
TruncMul12(a) == IF a >= 0 THEN (a * 12) \div 10 ELSE 0 - (((0 - a) * 12) \div 10)

(* a CalculateDamage whose critical hit does not ask whether a tower attacks *)
CalculateDamageAnyCrit(attackerATK, defenderDEF, isTowerAttack, critDraw) ==
    LET dmg == IF critDraw
               THEN TruncMul12(attackerATK) - defenderDEF
               ELSE attackerATK - defenderDEF
    IN  IF dmg < 0 THEN 0 ELSE dmg

CalculateDamage(attackerATK, defenderDEF, isTowerAttack, critDraw) ==
    LET dmg == IF isTowerAttack /\ critDraw
               THEN TruncMul12(attackerATK) - defenderDEF
               ELSE attackerATK - defenderDEF
    IN  IF dmg < 0 THEN 0 ELSE dmg

ApplyDamage(hp, damage) == IF hp - damage < 0 THEN 0 ELSE hp - damage

(* a heal that is not clamped *)
HealTowerNoClamp(hp, maxHP, healAmount) == hp + healAmount

HealTower(hp, maxHP, healAmount) == IF hp + healAmount > maxHP THEN maxHP ELSE hp + healAmount

(* outcomes of rand.Float64() < towerCritChance *)
CritDraws(spec) ==
    CASE ConfigTowers[spec].Crit = "never"  -> {FALSE}
      [] ConfigTowers[spec].Crit = "always" -> {TRUE}
      [] OTHER                              -> {TRUE, FALSE}

(* no call of CalculateDamage is being followed *)
CalcIdle == calc = [atk |-> 0, def |-> 0, isTowerAttack |-> FALSE, chance |-> 0,
                    draw |-> 0, done |-> FALSE, dmg |-> 0]

TowerMaxHP(tw) == ScaleStat(ConfigTowers[SpecOf(tw)].BaseHP, level[OwnerOf(tw)])
TowerATK(tw) == ScaleStat(ConfigTowers[SpecOf(tw)].BaseATK, level[OwnerOf(tw)])
TowerDEF(tw) == ScaleStat(ConfigTowers[SpecOf(tw)].BaseDEF, level[OwnerOf(tw)])

NoTower == <<"", "">>
NoTroop == <<"", 0>>

(* ------------------------------------------------------------------ *)
(* internal/game: targeting                                            *)
(* ------------------------------------------------------------------ *)
IsGT1(spec) == spec = Guard1

OpponentOf(playerID) == IF P1 = playerID THEN P2 ELSE P1

(* the player's Towers slice, in its construction order *)
TowersOf(p, order) == [i \in 1..Len(order[p]) |-> <<p, order[p][i]>>]

FirstMinHP(seq, tw) ==
    LET m == CHOOSE h \in {tw[seq[i]].hp : i \in 1..Len(seq)} :
                 \A j \in 1..Len(seq) : h <= tw[seq[j]].hp
        i == CHOOSE k \in 1..Len(seq) :
                 tw[seq[k]].hp = m /\ \A j \in 1..(k - 1) : tw[seq[j]].hp # m
    IN  seq[i]

(* a targeting rule without the first-guard-tower gate *)
FindLowestHPTowerUngated(attackingPlayerID, tw, order) ==
    LET opp == TowersOf(OpponentOf(attackingPlayerID), order)
        validTargets == SelectSeq(opp, LAMBDA t : tw[t].hp > 0)
    IN  IF Len(validTargets) = 0 THEN NoTower ELSE FirstMinHP(validTargets, tw)

(* a targeting rule that takes the first tower standing *)
FindFirstTower(attackingPlayerID, tw, order) ==
    LET opp == TowersOf(OpponentOf(attackingPlayerID), order)
        validTargets == SelectSeq(opp, LAMBDA t : tw[t].hp > 0)
    IN  IF Len(validTargets) = 0 THEN NoTower ELSE validTargets[1]

FindLowestHPTower(attackingPlayerID, tw, order) ==
    LET opp == TowersOf(OpponentOf(attackingPlayerID), order)
        hasGT1 == \E i \in 1..Len(opp) : IsGT1(SpecOf(opp[i]))
        gt1 == IF hasGT1 THEN opp[CHOOSE i \in 1..Len(opp) : IsGT1(SpecOf(opp[i]))] ELSE NoTower
        gt1Destroyed == ~(hasGT1 /\ tw[gt1].hp > 0)
        validTargets ==
            IF ~gt1Destroyed /\ hasGT1
            THEN <<gt1>>
            ELSE SelectSeq(opp, LAMBDA t : (gt1Destroyed \/ ~IsGT1(SpecOf(t))) /\ tw[t].hp > 0)
    IN  IF Len(opp) = 0 \/ Len(validTargets) = 0 THEN NoTower ELSE FirstMinHP(validTargets, tw)

(* the live troops the sort can leave in front: earliest DeployedAt *)
TroopCandidates(towerOwnerID, tr, dep) ==
    LET live == {t \in dep[OpponentOf(towerOwnerID)] : tr[t].hp > 0}
    IN  {t \in live : \A u \in live : tr[t].deployedAt <= tr[u].deployedAt}

(* FindTroopToAttack: the troops it can return, the sort leaving any of  *)
(* the earliest in front; NoTroop stands for nil                        *)
FindTroopToAttack(towerOwnerID, tr, dep) ==
    IF TroopCandidates(towerOwnerID, tr, dep) = {} THEN {NoTroop}
    ELSE TroopCandidates(towerOwnerID, tr, dep)

(* a queen that finds nothing to heal *)
QueenHealTargetNone(deployingPlayerID, tw, order) == NoTower

(* a queen that also heals a destroyed tower *)
QueenHealTargetAny(deployingPlayerID, tw, order) ==
    LET own == TowersOf(IF P1 = deployingPlayerID THEN P1 ELSE P2, order)
        friendly == SelectSeq(own, LAMBDA t : tw[t].hp < TowerMaxHP(t))
    IN  IF Len(friendly) = 0 THEN NoTower ELSE FirstMinHP(friendly, tw)

(* ApplyQueenHeal: the tower it heals, or NoTower *)
QueenHealTarget(deployingPlayerID, tw, order) ==
    LET own == TowersOf(IF P1 = deployingPlayerID THEN P1 ELSE P2, order)
        friendly == SelectSeq(own, LAMBDA t : tw[t].hp > 0 /\ tw[t].hp < TowerMaxHP(t))
    IN  IF Len(friendly) = 0 THEN NoTower ELSE FirstMinHP(friendly, tw)

(* ------------------------------------------------------------------ *)
(* internal/persistence: progression                                   *)
(* ------------------------------------------------------------------ *)
(* int(100.0 * 1.1^(level-1)); from level 3 on the quotient is taken with *)
(* the factor 100 cancelled, which keeps the product within 32 bits      *)
calculateExpForNextLevel(currentLevel) ==
    IF currentLevel < 1 THEN BaseExp
    ELSE IF currentLevel < 3
    THEN (BaseExp * Pow(11, currentLevel - 1)) \div Pow(10, currentLevel - 1)
    ELSE Pow(11, currentLevel - 1) \div (Pow(10, currentLevel - 1) \div BaseExp)

RECURSIVE LevelUps(_)
LevelUps(acc) ==
    IF acc.EXP >= calculateExpForNextLevel(acc.Level)
    THEN LevelUps([EXP |-> acc.EXP - calculateExpForNextLevel(acc.Level),
                   Level |-> acc.Level + 1, up |-> TRUE])
    ELSE acc

(* an update that takes at most one level-up *)
UpdatePlayerOneLevel(acc, expGained) ==
    IF acc.EXP + expGained >= calculateExpForNextLevel(acc.Level)
    THEN [EXP |-> acc.EXP + expGained - calculateExpForNextLevel(acc.Level),
          Level |-> acc.Level + 1, up |-> TRUE]
    ELSE [EXP |-> acc.EXP + expGained, Level |-> acc.Level, up |-> FALSE]

UpdatePlayerAfterGame(acc, expGained) ==
    LevelUps([EXP |-> acc.EXP + expGained, Level |-> acc.Level, up |-> FALSE])

(* no call of UpdatePlayerAfterGame is being followed *)
UpdIdle == upd = [acc |-> [EXP |-> 0, Level |-> 1], expGained |-> 0, done |-> FALSE,
                  EXP |-> 0, Level |-> 1, didLevelUp |-> FALSE]

FreshTowers == [t \in TowerIds |-> [hp |-> ConfigTowers[SpecOf(t)].BaseHP, destroyed |-> FALSE]]

(* no call of a targeting function is being followed *)
FindIdle ==
    find = [fn |-> "", id |-> P1, tr |-> <<>>, dep |-> [p \in Players |-> {}],
            tw |-> FreshTowers, order |-> [p \in Players |-> <<King, Guard1, Guard2>>],
            done |-> FALSE, troop |-> NoTroop, tower |-> NoTower]

(* ------------------------------------------------------------------ *)
(* Outgoing datagrams                                                  *)
(* ------------------------------------------------------------------ *)
Event(to, name, tower, troop, n) ==
    [kind |-> "game_event", to |-> to, event |-> name, tower |-> tower, troop |-> troop, n |-> n]

Ack(to, seq) ==
    [kind |-> "command_ack", to |-> to, event |-> "", tower |-> NoTower, troop |-> NoTroop, n |-> seq]

Known(ad) == {t \in Players : ad[t] # NoAddr}

(* sendGameEventToAllPlayers: one datagram per player whose address is known *)
ToAll(ad, name, tower, troop, n) == {Event(t, name, tower, troop, n) : t \in Known(ad)}

(* an event meant for one player that goes to every known player *)
ToEveryone(ad, token, name, n) == {Event(t, name, NoTower, NoTroop, n) : t \in Known(ad)}

(* an answer to one player that is a command-ack instead of an event *)
ToPlayerAck(ad, token, name, n) == IF ad[token] # NoAddr THEN {Ack(token, n)} ELSE {}

(* sendGameEventToPlayer *)
ToPlayer(ad, token, name, n) ==
    IF ad[token] # NoAddr THEN {Event(token, name, NoTower, NoTroop, n)} ELSE {}

NoSnapshot == [to |-> {}, time |-> 0, mana |-> <<0, 0>>, towers |-> {}, troops |-> {}]

(* ------------------------------------------------------------------ *)
(* game_session.go: conclusion                                         *)
(* ------------------------------------------------------------------ *)
(* a session that recognises no king tower *)
isKingTowerNever(tw) == FALSE

isKingTower(tw) == towerName[SpecOf(tw)] = "King Tower"

DestroyedOf(p, tw) == {t \in TowerIds : OwnerOf(t) = p /\ tw[t].destroyed}

RECURSIVE YieldSum(_)
YieldSum(S) ==
    IF S = {} THEN 0
    ELSE LET t == CHOOSE x \in S : TRUE
         IN  ConfigTowers[SpecOf(t)].EXPYield + YieldSum(S \ {t})

(* a conclusion in which nobody wins and nobody draws *)
OutcomesBothLose(reason, tw, q) == <<"loss", "loss">>

(* <<resultPlayer1, resultPlayer2>> *)
Outcomes(reason, tw, q) ==
    CASE reason = "king_tower_destroyed" ->
           LET p1KingDestroyed == \E t \in DestroyedOf(P1, tw) : isKingTower(t)
               p2KingDestroyed == \E t \in DestroyedOf(P2, tw) : isKingTower(t)
           IN  IF p1KingDestroyed /\ ~p2KingDestroyed THEN <<"loss", "win">>
               ELSE IF p2KingDestroyed /\ ~p1KingDestroyed THEN <<"win", "loss">>
               ELSE <<"draw", "draw">>
      [] reason = "timeout" ->
           LET p1TowersDestroyed == Cardinality(DestroyedOf(P2, tw))
               p2TowersDestroyed == Cardinality(DestroyedOf(P1, tw))
           IN  IF p1TowersDestroyed > p2TowersDestroyed THEN <<"win", "loss">>
               ELSE IF p2TowersDestroyed > p1TowersDestroyed THEN <<"loss", "win">>
               ELSE <<"draw", "draw">>
      [] reason = "player_quit" ->
           IF q[P1] /\ ~q[P2] THEN <<"loss", "win">>
           ELSE IF q[P2] /\ ~q[P1] THEN <<"win", "loss">>
           ELSE <<"draw", "draw">>
      [] OTHER -> <<"draw", "draw">>

(* a bonus paid whatever the outcome *)
BonusAlways(outcome) == WinBonus

Bonus(outcome) == IF outcome = "win" THEN WinBonus ELSE IF outcome = "draw" THEN DrawBonus ELSE 0

(* the GameResultInfo built by determineWinnerAndStop, and the updated accounts *)
determineWinner(reason, tw, q, acc) ==
    LET out == Outcomes(reason, tw, q)
        p1ExpEarned == YieldSum(DestroyedOf(P2, tw)) + Bonus(out[1])
        p2ExpEarned == YieldSum(DestroyedOf(P1, tw)) + Bonus(out[2])
        a1 == UpdatePlayerAfterGame(acc[P1], p1ExpEarned)
        a2 == UpdatePlayerAfterGame(acc[P2], p2ExpEarned)
        winner == IF out[1] = "win" THEN P1 ELSE IF out[2] = "win" THEN P2 ELSE ""
    IN  [GameEndReason |-> reason,
         OverallWinnerID |-> winner,
         Player1Result |-> [WinnerID |-> winner, Outcome |-> out[1], EXPChange |-> p1ExpEarned,
                            NewEXP |-> a1.EXP, NewLevel |-> a1.Level, LevelUp |-> a1.up,
                            DestroyedTowers |-> Cardinality(DestroyedOf(P2, tw))],
         Player2Result |-> [WinnerID |-> winner, Outcome |-> out[2], EXPChange |-> p2ExpEarned,
                            NewEXP |-> a2.EXP, NewLevel |-> a2.Level, LevelUp |-> a2.up,
                            DestroyedTowers |-> Cardinality(DestroyedOf(P1, tw))]]

(* a conclusion that leaves the terminal flag as it was *)
determineWinnerNoFlag(reason, tw) ==
    LET info == determineWinner(reason, tw, quit, account)
    IN  /\ isGameOver' = isGameOver
        /\ endReason' = reason
        /\ account' = [account EXCEPT
                         ![P1] = [EXP |-> info.Player1Result.NewEXP, Level |-> info.Player1Result.NewLevel],
                         ![P2] = [EXP |-> info.Player2Result.NewEXP, Level |-> info.Player2Result.NewLevel]]
        /\ resultsChan' = IF Len(resultsChan) < 1 THEN Append(resultsChan, info) ELSE resultsChan
        /\ udpOpen' = FALSE
        /\ concludeCount' = concludeCount + 1

(* determineWinnerAndStop: the state it leaves, given the towers at that point *)
determineWinnerAndStop(reason, tw) ==
    IF isGameOver
    THEN UNCHANGED <<isGameOver, endReason, account, resultsChan, udpOpen, concludeCount>>
    ELSE LET info == determineWinner(reason, tw, quit, account)
         IN  /\ isGameOver' = TRUE
             /\ endReason' = reason
             /\ account' = [account EXCEPT
                              ![P1] = [EXP |-> info.Player1Result.NewEXP, Level |-> info.Player1Result.NewLevel],
                              ![P2] = [EXP |-> info.Player2Result.NewEXP, Level |-> info.Player2Result.NewLevel]]
             /\ resultsChan' = IF Len(resultsChan) < 1 THEN Append(resultsChan, info) ELSE resultsChan
             /\ udpOpen' = FALSE
             /\ concludeCount' = concludeCount + 1

(* ------------------------------------------------------------------ *)
(* game_session.go: the attack passes of one tick                      *)
(* a pass state g: tw towers, tr troop objects, act/dep the troop maps,*)
(* lta/ltw the attack timers, ev the events sent, king: a king fell    *)
(* ------------------------------------------------------------------ *)
(* a troop that attacks at every tick *)
TroopStepEager(g, tid, t, ad, order) ==
    LET troop == g.tr[tid]
        target == FindLowestHPTower(troop.owner, g.tw, order)
        damage == CalculateDamage(troop.atk, TowerDEF(target), FALSE, FALSE)
        newHP == ApplyDamage(g.tw[target].hp, damage)
        fell == newHP = 0
        hit == [g EXCEPT
                  !.tw[target] = [hp |-> newHP, destroyed |-> IF fell THEN TRUE ELSE @.destroyed],
                  !.ev = @ \cup ToAll(ad, "TowerDamaged", target, tid, damage)
                           \cup (IF fell THEN ToAll(ad, "TowerDestroyed", target, tid, 0) ELSE {}),
                  !.king = fell /\ isKingTower(target)]
    IN  IF troop.hp > 0
        THEN IF target # NoTower /\ g.tw[target].hp > 0 /\ damage > 0
             THEN IF hit.king THEN hit ELSE [hit EXCEPT !.lta[tid] = t]
             ELSE [g EXCEPT !.lta[tid] = t]
        ELSE g

TroopStep(g, tid, t, ad, order) ==
    LET troop == g.tr[tid]
        target == FindLowestHPTower(troop.owner, g.tw, order)
        damage == CalculateDamage(troop.atk, TowerDEF(target), FALSE, FALSE)
        newHP == ApplyDamage(g.tw[target].hp, damage)
        fell == newHP = 0
        hit == [g EXCEPT
                  !.tw[target] = [hp |-> newHP, destroyed |-> IF fell THEN TRUE ELSE @.destroyed],
                  !.ev = @ \cup ToAll(ad, "TowerDamaged", target, tid, damage)
                           \cup (IF fell THEN ToAll(ad, "TowerDestroyed", target, tid, 0) ELSE {}),
                  !.king = fell /\ isKingTower(target)]
    IN  IF troop.hp > 0 /\ t - g.lta[tid] >= AttackInterval
        THEN IF target # NoTower /\ g.tw[target].hp > 0 /\ damage > 0
             THEN IF hit.king THEN hit ELSE [hit EXCEPT !.lta[tid] = t]
             ELSE [g EXCEPT !.lta[tid] = t]
        ELSE g

(* a pass that goes on after a king tower fell *)
RECURSIVE TroopPassAll(_, _, _, _, _)
TroopPassAll(g, rem, t, ad, order) ==
    IF rem = {} THEN {g}
    ELSE UNION {TroopPassAll([TroopStep(g, tid, t, ad, order) EXCEPT !.king = @ \/ g.king],
                             rem \ {tid}, t, ad, order) : tid \in rem}

(* range over gs.activeTroops: any order of the map's keys *)
RECURSIVE TroopPass(_, _, _, _, _)
TroopPass(g, rem, t, ad, order) ==
    IF g.king \/ rem = {} THEN {g}
    ELSE UNION {TroopPass(TroopStep(g, tid, t, ad, order), rem \ {tid}, t, ad, order) : tid \in rem}

(* a tower hit that leaves a defeated troop where it is *)
TowerHitKeep(g, tw, target, crit, t, ad) ==
    LET troop == g.tr[target]
        damage == CalculateDamage(TowerATK(tw), troop.def, TRUE, crit)
        newHP == ApplyDamage(troop.hp, damage)
    IN  [g EXCEPT !.ltw[GameSpecificID(tw)] = t,
                  !.ev = @ \cup (IF damage > 0 THEN ToAll(ad, "TroopDamaged", tw, target, damage) ELSE {}),
                  !.tr[target].hp = newHP]

(* a defeated troop is taken out of the centralized map only *)
TowerHitCentralOnly(g, tw, target, crit, t, ad) ==
    LET troop == g.tr[target]
        damage == CalculateDamage(TowerATK(tw), troop.def, TRUE, crit)
        newHP == ApplyDamage(troop.hp, damage)
        g1 == [g EXCEPT !.ltw[GameSpecificID(tw)] = t]
    IN  IF damage > 0 /\ newHP = 0
        THEN [g1 EXCEPT !.ev = @ \cup ToAll(ad, "TroopDefeated", tw, target, 0),
                        !.act = @ \ {target}]
        ELSE IF damage > 0
        THEN [g1 EXCEPT !.ev = @ \cup ToAll(ad, "TroopDamaged", tw, target, damage),
                        !.tr[target].hp = newHP]
        ELSE g1

TowerHit(g, tw, target, crit, t, ad) ==
    LET troop == g.tr[target]
        damage == CalculateDamage(TowerATK(tw), troop.def, TRUE, crit)
        newHP == ApplyDamage(troop.hp, damage)
        name == IF damage > TowerATK(tw) - troop.def THEN "CritHit" ELSE "TroopDamaged"
        g1 == [g EXCEPT !.ltw[GameSpecificID(tw)] = t]
    IN  IF damage > 0
        THEN IF newHP = 0
             THEN [g1 EXCEPT
                     !.ev = @ \cup ToAll(ad, name, tw, target, damage)
                              \cup ToAll(ad, "TroopDefeated", tw, target, 0),
                     !.tr = [x \in (DOMAIN @) \ {target} |-> @[x]],
                     !.act = @ \ {target},
                     !.dep[troop.owner] = @ \ {target}]
             ELSE [g1 EXCEPT
                     !.ev = @ \cup ToAll(ad, name, tw, target, damage),
                     !.tr[target].hp = newHP]
        ELSE g1

TowerStep(g, tw, t, ad) ==
    IF g.tw[tw].hp > 0 /\ t - g.ltw[GameSpecificID(tw)] >= AttackInterval
    THEN LET cands == TroopCandidates(OwnerOf(tw), g.tr, g.dep)
         IN  IF cands = {}
             THEN {[g EXCEPT !.ltw[GameSpecificID(tw)] = t]}
             ELSE {TowerHit(g, tw, c, k, t, ad) : c \in cands, k \in CritDraws(SpecOf(tw))}
    ELSE {g}

(* range over gs.towers, player 1's towers first *)
RECURSIVE TowerPass(_, _, _, _, _)
TowerPass(g, seq, i, t, ad) ==
    IF i > Len(seq) THEN {g}
    ELSE UNION {TowerPass(g2, seq, i + 1, t, ad) : g2 \in TowerStep(g, seq[i], t, ad)}

AllTowers(order) == TowersOf(P1, order) \o TowersOf(P2, order)

AttackPasses(t) ==
    LET g0 == [tw |-> towers, tr |-> troopObj, act |-> activeTroops, dep |-> deployedTroops,
               lta |-> lastTroopAttack, ltw |-> lastTowerAttack, ev |-> {}, king |-> FALSE]
    IN  UNION {IF g1.king THEN {g1} ELSE TowerPass(g1, AllTowers(towerOrder), 1, t, addrs)
               : g1 \in TroopPass(g0, activeTroops, t, addrs, towerOrder)}

(* regeneration by two, up to the cap *)
RegenDouble(m) == IF m + 2 <= MaxMana THEN m + 2 ELSE MaxMana

(* regeneration without the cap *)
RegenNoCap(m) == m + 1

Regen(m) == IF m < MaxMana THEN m + 1 ELSE m

GameStateUpdate(t, m, g) ==
    [to |-> Known(addrs), time |-> MatchDuration - t, mana |-> <<m[P1], m[P2]>>,
     towers |-> {<<x, g.tw[x].hp, g.tw[x].destroyed>> : x \in TowerIds},
     troops |-> {<<x, g.tr[x].hp>> : x \in g.act}]

(* ------------------------------------------------------------------ *)
(* NewGameSession: the session right after construction                *)
(* ------------------------------------------------------------------ *)
TowerOrders == {<<King, Guard1, Guard2>>, <<Guard2, Guard1, King>>}

(* lv: the level each account was loaded with; names: the display names *)
(* of the tower specs of the loaded configuration                        *)
SessionInitWith(lv, names) ==
    /\ now = 0
    /\ level = lv
    /\ towerName = names
    /\ account = [p \in Players |-> [EXP |-> 0, Level |-> lv[p]]]
    /\ mana = [p \in Players |-> InitialMana]
    /\ \E o \in TowerOrders : towerOrder = [p \in Players |-> o]
    /\ towers = [t \in TowerIds |->
                    [hp |-> ScaleStat(ConfigTowers[SpecOf(t)].BaseHP, lv[OwnerOf(t)]), destroyed |-> FALSE]]
    /\ troopObj = <<>>
    /\ activeTroops = {}
    /\ deployedTroops = [p \in Players |-> {}]
    /\ lastManaRegen = 0
    /\ lastTroopAttack = <<>>
    /\ lastTowerAttack = [x \in GSIDs |-> 0]
    /\ quit = [p \in Players |-> FALSE]
    /\ processed = [p \in Players |-> {}]
    /\ addrs = [t \in Tokens |-> NoAddr]
    /\ playerActions = <<>>
    /\ isGameOver = FALSE
    /\ loopDone = FALSE
    /\ endReason = ""
    /\ resultsChan = <<>>
    /\ udpOpen = TRUE
    /\ concludeCount = 0
    /\ sent = {}
    /\ snapshot = NoSnapshot
    /\ nextTroop = 1

SessionInitAt(lv) == SessionInitWith(lv, ConfigNames)

SessionInit == SessionInitAt([p \in Players |-> 1])

(* ------------------------------------------------------------------ *)
(* readUDPMessages: one datagram read, address recorded, message queued *)
(* ------------------------------------------------------------------ *)
Deploy(token, sid, seq, troop, from) ==
    [type |-> "deploy_troop", token |-> token, sid |-> sid, seq |-> seq, troop |-> troop, from |-> from]

Quit(token, sid, from) ==
    [type |-> "player_quit", token |-> token, sid |-> sid, seq |-> 0, troop |-> "", from |-> from]

(* what the two clients send in the explored matches: player 1 anything, *)
(* player 2 its first pawn                                               *)
PlayerDatagrams ==
    {Deploy(P1, SessionID, q, tr, AddrOf(P1)) : q \in 1..MaxSeq, tr \in TroopChoices}
    \cup {Deploy(P2, SessionID, 1, "pawn", AddrOf(P2))}
    \cup {Quit(p, SessionID, AddrOf(p)) : p \in Players}

(* what anybody else can send to the session's port *)
StrayDatagrams ==
    {Deploy(P1, OtherSessionID, 1, "pawn", AddrOf(Stranger)),
     Deploy(Stranger, SessionID, 1, "pawn", AddrOf(Stranger)),
     Quit(Stranger, SessionID, AddrOf(Stranger)),
     Quit(P2, OtherSessionID, AddrOf(Stranger))}

(* a reader that queues whatever it reads *)
ReadUDPUnbounded(m) ==
    /\ udpOpen
    /\ recvLeft > 0
    /\ recvLeft' = recvLeft - 1
    /\ addrs' = [addrs EXCEPT ![m.token] = m.from]
    /\ playerActions' = Append(playerActions, m)
    /\ sent' = {}
    /\ snapshot' = NoSnapshot
    /\ UNCHANGED <<now, level, account, mana, towers, towerOrder, towerName, troopObj, activeTroops,
                   deployedTroops, lastManaRegen, lastTroopAttack, lastTowerAttack, quit,
                   processed, isGameOver, loopDone, endReason, resultsChan, udpOpen,
                   concludeCount, nextTroop, net, horizon>>

ReadUDP(m) ==
    /\ udpOpen
    /\ recvLeft > 0
    /\ recvLeft' = recvLeft - 1
    /\ addrs' = [addrs EXCEPT ![m.token] = m.from]
    /\ playerActions' = IF Len(playerActions) < QueueCap THEN Append(playerActions, m) ELSE playerActions
    /\ sent' = {}
    /\ snapshot' = NoSnapshot
    /\ UNCHANGED <<now, level, account, mana, towers, towerOrder, towerName, troopObj, activeTroops,
                   deployedTroops, lastManaRegen, lastTroopAttack, lastTowerAttack, quit,
                   processed, isGameOver, loopDone, endReason, resultsChan, udpOpen,
                   concludeCount, nextTroop, net, horizon>>

(* ------------------------------------------------------------------ *)
(* handlePlayerAction                                                  *)
(* ------------------------------------------------------------------ *)
AckTo(token, seq) == IF addrs[token] # NoAddr THEN {Ack(token, seq)} ELSE {}

(* a session that forgets what it processed *)
IsProcessedNever(proc, token, seq) == FALSE

IsProcessed(proc, token, seq) == token \in DOMAIN proc /\ seq \in proc[token]

NewTroop(owner, spec, n) ==
    [owner |-> owner, spec |-> spec.ID,
     hp |-> ScaleStat(spec.BaseHP, account[owner].Level),
     maxHP |-> ScaleStat(spec.BaseHP, account[owner].Level),
     atk |-> ScaleStat(spec.BaseATK, account[owner].Level),
     def |-> ScaleStat(spec.BaseDEF, account[owner].Level),
     deployedAt |-> n]

handleQuit(msg) ==
    /\ quit' = IF msg.token \in Players THEN [quit EXCEPT ![msg.token] = TRUE] ELSE quit
    /\ sent' = {}
    /\ UNCHANGED <<mana, towers, troopObj, activeTroops, deployedTroops, lastTroopAttack,
                   processed, nextTroop>>

handleDeploy(msg) ==
    LET p == msg.token
        known == msg.troop \in DOMAIN ConfigTroops
        spec == ConfigTroops[msg.troop]
        id == <<p, nextTroop>>
        healed == QueenHealTarget(p, towers, towerOrder)
        newHP == HealTower(towers[healed].hp, TowerMaxHP(healed), QueenHeal)
    IN  CASE IsProcessed(processed, p, msg.seq) ->
               /\ sent' = AckTo(p, msg.seq)
               /\ UNCHANGED <<mana, towers, troopObj, activeTroops, deployedTroops,
                              lastTroopAttack, processed, nextTroop, quit>>
          [] ~IsProcessed(processed, p, msg.seq) /\ p \notin Players ->
               /\ sent' = {}
               /\ UNCHANGED <<mana, towers, troopObj, activeTroops, deployedTroops,
                              lastTroopAttack, processed, nextTroop, quit>>
          [] ~IsProcessed(processed, p, msg.seq) /\ p \in Players /\ ~known ->
               /\ sent' = ToPlayer(addrs, p, "Error", 0)
               /\ UNCHANGED <<mana, towers, troopObj, activeTroops, deployedTroops,
                              lastTroopAttack, processed, nextTroop, quit>>
          [] ~IsProcessed(processed, p, msg.seq) /\ p \in Players /\ known
                /\ mana[p] < spec.ManaCost ->
               /\ sent' = ToPlayer(addrs, p, "Error", spec.ManaCost)
               /\ UNCHANGED <<mana, towers, troopObj, activeTroops, deployedTroops,
                              lastTroopAttack, processed, nextTroop, quit>>
          [] ~IsProcessed(processed, p, msg.seq) /\ p \in Players /\ known
                /\ mana[p] >= spec.ManaCost /\ spec.ID = "queen" ->
               /\ mana' = [mana EXCEPT ![p] = @ - spec.ManaCost]
               /\ towers' = IF healed = NoTower THEN towers
                            ELSE [towers EXCEPT ![healed].hp = newHP]
               /\ sent' = ToAll(addrs, "QueenHeal", healed, NoTroop,
                                IF healed = NoTower THEN 0 ELSE newHP - towers[healed].hp)
                          \cup AckTo(p, msg.seq)
               /\ processed' = [processed EXCEPT ![p] = @ \cup {msg.seq}]
               /\ UNCHANGED <<troopObj, activeTroops, deployedTroops, lastTroopAttack,
                              nextTroop, quit>>
          [] OTHER ->
               /\ mana' = [mana EXCEPT ![p] = @ - spec.ManaCost]
               /\ troopObj' = (id :> NewTroop(p, spec, now)) @@ troopObj
               /\ deployedTroops' = [deployedTroops EXCEPT ![p] = @ \cup {id}]
               /\ activeTroops' = activeTroops \cup {id}
               /\ lastTroopAttack' = (id :> now) @@ lastTroopAttack
               /\ nextTroop' = nextTroop + 1
               /\ sent' = ToAll(addrs, "TroopDeployed", NoTower, id, 0) \cup AckTo(p, msg.seq)
               /\ processed' = [processed EXCEPT ![p] = @ \cup {msg.seq}]
               /\ UNCHANGED <<towers, quit>>

handlePlayerAction(msg) ==
    IF msg.sid # SessionID
    THEN /\ sent' = {}
         /\ UNCHANGED <<mana, towers, troopObj, activeTroops, deployedTroops, lastTroopAttack,
                        processed, nextTroop, quit>>
    ELSE CASE msg.type = "player_quit"  -> handleQuit(msg)
           [] msg.type = "deploy_troop" -> handleDeploy(msg)
           [] OTHER -> /\ sent' = {}
                       /\ UNCHANGED <<mana, towers, troopObj, activeTroops, deployedTroops,
                                      lastTroopAttack, processed, nextTroop, quit>>

(* a loop that goes on serving the channel after the conclusion *)
HandleActionLate ==
    /\ Len(playerActions) > 0
    /\ playerActions' = Tail(playerActions)
    /\ handlePlayerAction(Head(playerActions))
    /\ snapshot' = NoSnapshot
    /\ UNCHANGED <<now, level, account, towerOrder, towerName, lastManaRegen, lastTowerAttack, addrs,
                   isGameOver, loopDone, endReason, resultsChan, udpOpen, concludeCount,
                   net, recvLeft, horizon>>

(* Start: case action := <-gs.playerActions *)
HandleAction ==
    /\ ~loopDone
    /\ Len(playerActions) > 0
    /\ playerActions' = Tail(playerActions)
    /\ IF ~isGameOver
       THEN handlePlayerAction(Head(playerActions))
       ELSE /\ sent' = {}
            /\ UNCHANGED <<mana, towers, troopObj, activeTroops, deployedTroops,
                           lastTroopAttack, processed, nextTroop, quit>>
    /\ snapshot' = NoSnapshot
    /\ UNCHANGED <<now, level, account, towerOrder, towerName, lastManaRegen, lastTowerAttack, addrs,
                   isGameOver, loopDone, endReason, resultsChan, udpOpen, concludeCount,
                   net, recvLeft, horizon>>

(* ------------------------------------------------------------------ *)
(* Start: case <-ticker.C, at wall-clock time t                        *)
(* ------------------------------------------------------------------ *)
(* a deadline one ticker period late *)
gameEndTimeLate == MatchDuration + 1

gameEndTime == MatchDuration

TickAt(t) ==
    /\ ~loopDone
    /\ now' = t
    /\ IF isGameOver
       THEN /\ loopDone' = TRUE
            /\ sent' = {}
            /\ snapshot' = NoSnapshot
            /\ UNCHANGED <<account, mana, towers, troopObj, activeTroops, deployedTroops,
                           lastManaRegen, lastTroopAttack, lastTowerAttack, isGameOver,
                           endReason, resultsChan, udpOpen, concludeCount>>
       ELSE IF t > gameEndTime
       THEN /\ determineWinnerAndStop("timeout", towers)
            /\ loopDone' = TRUE
            /\ sent' = {}
            /\ snapshot' = NoSnapshot
            /\ UNCHANGED <<mana, towers, troopObj, activeTroops, deployedTroops,
                           lastManaRegen, lastTroopAttack, lastTowerAttack>>
       ELSE LET regen == t - lastManaRegen >= RegenInterval
                m == IF regen THEN [p \in Players |-> Regen(mana[p])] ELSE mana
            IN  /\ mana' = m
                /\ lastManaRegen' = IF regen THEN t ELSE lastManaRegen
                /\ \E g \in AttackPasses(t) :
                     /\ towers' = g.tw
                     /\ troopObj' = g.tr
                     /\ activeTroops' = g.act
                     /\ deployedTroops' = g.dep
                     /\ lastTroopAttack' = g.lta
                     /\ lastTowerAttack' = g.ltw
                     /\ sent' = g.ev
                     /\ IF g.king
                        THEN /\ determineWinnerAndStop("king_tower_destroyed", g.tw)
                             /\ loopDone' = TRUE
                             /\ snapshot' = NoSnapshot
                        ELSE /\ snapshot' = GameStateUpdate(t, m, g)
                             /\ UNCHANGED <<account, isGameOver, loopDone, endReason,
                                            resultsChan, udpOpen, concludeCount>>
    /\ UNCHANGED <<level, towerOrder, towerName, quit, processed, addrs, playerActions, nextTroop,
                   net, recvLeft, horizon>>

(* the times at which the next tick can run: one ticker period later, or,  *)
(* past the horizon, after a stall that lasts until the match deadline     *)
TickTimes == IF now < horizon THEN {now + 1}
             ELSE IF now <= gameEndTime THEN {gameEndTime + 1} ELSE {now + 1}

Tick == \E t \in TickTimes : TickAt(t)

Receive == \E m \in net : ReadUDP(m)

(* ------------------------------------------------------------------ *)
(* Matchmaking: HandleMatchmakingRequest and handleGameResults         *)
(* ------------------------------------------------------------------ *)
Callers == 1..MaxCallers
NoCaller == 0

(* a game is named by its pair <<waiting caller, second caller>> *)
Games == {g \in Callers \X Callers : g[1] # g[2]}

MMIdle ==
    /\ pc = [c \in Callers |-> "idle"]
    /\ arrived = 0
    /\ mqBuf = <<>>
    /\ mqSendq = <<>>
    /\ waitingPlayer = [c \in Callers |-> NoCaller]
    /\ MatchedChan = [c \in Callers |-> FALSE]
    /\ GameConcludedChan = [c \in Callers |-> 0]
    /\ sessions = [g \in Games |-> "none"]
    /\ gameResults = [g \in Games |-> <<>>]
    /\ task = [g \in Games |-> "none"]
    /\ taskInfo = [g \in Games |-> <<>>]
    /\ tcpOut = [c \in Callers |-> <<>>]
    /\ connOpen = [c \in Callers |-> TRUE]
    /\ began = [c \in Callers |-> 0]
    /\ peerGone = [c \in Callers |-> FALSE]

(* json.NewEncoder(conn).Encode(msg): written if the connection is open *)
Encode(out, c, msg) == IF connOpen[c] /\ ~peerGone[c] THEN [out EXCEPT ![c] = Append(@, msg)] ELSE out

MatchFoundResponse(g, isPlayerOne) ==
    [Type |-> "match_found_response", GameID |-> g, IsPlayerOne |-> isPlayerOne]

GameOverResults(payload) == [Type |-> "game_over_results", Payload |-> payload]

(* where a sender parked on the queue continues once its send completes *)
AfterSend(at) == IF at = "putbackBlocked" THEN "closeOwn" ELSE "waitMatched"

(* case matchmakingQueue <- queueEntry, or default (lines 57-67) *)
Request(c) ==
    /\ pc[c] = "idle"
    /\ c = arrived + 1
    /\ c <= callers
    /\ arrived' = c
    /\ IF Len(mqBuf) < 1
       THEN /\ mqBuf' = Append(mqBuf, c)
            /\ pc' = [pc EXCEPT ![c] = "waitMatched"]
            /\ began' = [began EXCEPT ![c] = c]
       ELSE /\ pc' = [pc EXCEPT ![c] = "inner"]
            /\ UNCHANGED <<mqBuf, began>>
    /\ UNCHANGED <<mqSendq, waitingPlayer, MatchedChan, GameConcludedChan, sessions,
                   gameResults, task, taskInfo, tcpOut, connOpen, peerGone, callers>>

(* queueMutex.Lock(); case waitingPlayer := <-matchmakingQueue, or default; *)
(* queueMutex.Unlock() (lines 68-71, 103-104). A receive from a full buffer *)
(* moves the first parked sender's entry into the buffer and wakes it.      *)
InnerSelect(c) ==
    /\ pc[c] = "inner"
    /\ IF Len(mqBuf) > 0
       THEN /\ waitingPlayer' = [waitingPlayer EXCEPT ![c] = Head(mqBuf)]
            /\ IF Len(mqSendq) > 0
               THEN /\ mqBuf' = <<Head(mqSendq).entry>>
                    /\ mqSendq' = Tail(mqSendq)
                    /\ pc' = [pc EXCEPT ![c] = "create",
                                        ![Head(mqSendq).who] = AfterSend(pc[Head(mqSendq).who])]
               ELSE /\ mqBuf' = Tail(mqBuf)
                    /\ mqSendq' = mqSendq
                    /\ pc' = [pc EXCEPT ![c] = "create"]
       ELSE /\ pc' = [pc EXCEPT ![c] = "requeue"]
            /\ UNCHANGED <<mqBuf, mqSendq, waitingPlayer>>
    /\ UNCHANGED <<arrived, MatchedChan, GameConcludedChan, sessions, gameResults, task,
                   taskInfo, tcpOut, connOpen, began, peerGone, callers>>

(* GlobalSessionManager.CreateSession (lines 73-79): NewGameSession gives a *)
(* session, which is registered and started, or nil                         *)
CreateSession(c) ==
    /\ pc[c] = "create"
    /\ LET g == <<waitingPlayer[c], c>>
       IN  \/ /\ sessions' = [sessions EXCEPT ![g] = "running"]
              /\ pc' = [pc EXCEPT ![c] = "spawn"]
           \/ /\ pc' = [pc EXCEPT ![c] = "putback"]
              /\ UNCHANGED sessions
    /\ UNCHANGED <<arrived, mqBuf, mqSendq, waitingPlayer, MatchedChan, GameConcludedChan,
                   gameResults, task, taskInfo, tcpOut, connOpen, began, peerGone, callers>>

(* a blocking send of entry e by caller c, which continues at 'next' or *)
(* parks at 'parked'                                                    *)
BlockingSend(c, e, next, parked) ==
    IF Len(mqBuf) < 1
    THEN /\ mqBuf' = Append(mqBuf, e)
         /\ pc' = [pc EXCEPT ![c] = next]
         /\ UNCHANGED mqSendq
    ELSE /\ mqSendq' = Append(mqSendq, [who |-> c, entry |-> e])
         /\ pc' = [pc EXCEPT ![c] = parked]
         /\ UNCHANGED mqBuf

(* matchmakingQueue <- waitingPlayer (line 81) *)
PutBack(c) ==
    /\ pc[c] = "putback"
    /\ BlockingSend(c, waitingPlayer[c], "closeOwn", "putbackBlocked")
    /\ UNCHANGED <<arrived, waitingPlayer, MatchedChan, GameConcludedChan, sessions,
                   gameResults, task, taskInfo, tcpOut, connOpen, began, peerGone, callers>>

(* a failure path that also signals the waiting player it put back *)
FailReturnSignals(c) ==
    /\ pc[c] = "closeOwn"
    /\ GameConcludedChan' = [GameConcludedChan EXCEPT ![c] = @ + 1]
    /\ MatchedChan' = [MatchedChan EXCEPT ![waitingPlayer[c]] = TRUE]
    /\ pc' = [pc EXCEPT ![c] = "returned"]
    /\ connOpen' = [connOpen EXCEPT ![c] = FALSE]
    /\ UNCHANGED <<arrived, mqBuf, mqSendq, waitingPlayer, sessions,
                   gameResults, task, taskInfo, tcpOut, began, peerGone, callers>>

(* close(queueEntry.GameConcludedChan); return (lines 84-85); the caller, *)
(* handleConnection, then closes the connection                           *)
FailReturn(c) ==
    /\ pc[c] = "closeOwn"
    /\ GameConcludedChan' = [GameConcludedChan EXCEPT ![c] = @ + 1]
    /\ pc' = [pc EXCEPT ![c] = "returned"]
    /\ connOpen' = [connOpen EXCEPT ![c] = FALSE]
    /\ UNCHANGED <<arrived, mqBuf, mqSendq, waitingPlayer, MatchedChan, sessions,
                   gameResults, task, taskInfo, tcpOut, began, peerGone, callers>>

(* go handleGameResults(resultsChan, waitingPlayer, queueEntry, gameID) (line 89) *)
Spawn(c) ==
    /\ pc[c] = "spawn"
    /\ task' = [task EXCEPT ![<<waitingPlayer[c], c>>] = "select"]
    /\ pc' = [pc EXCEPT ![c] = "notifyP1"]
    /\ UNCHANGED <<arrived, mqBuf, mqSendq, waitingPlayer, MatchedChan, GameConcludedChan,
                   sessions, gameResults, taskInfo, tcpOut, connOpen, began, peerGone, callers>>

(* notifyMatch(waitingPlayer.Connection, ..., true) (line 91) *)
NotifyP1(c) ==
    /\ pc[c] = "notifyP1"
    /\ tcpOut' = Encode(tcpOut, waitingPlayer[c], MatchFoundResponse(<<waitingPlayer[c], c>>, TRUE))
    /\ pc' = [pc EXCEPT ![c] = "notifyP2"]
    /\ UNCHANGED <<arrived, mqBuf, mqSendq, waitingPlayer, MatchedChan, GameConcludedChan,
                   sessions, gameResults, task, taskInfo, connOpen, began, peerGone, callers>>

(* notifyMatch(conn, ..., false) (line 92) *)
NotifyP2(c) ==
    /\ pc[c] = "notifyP2"
    /\ tcpOut' = Encode(tcpOut, c, MatchFoundResponse(<<waitingPlayer[c], c>>, FALSE))
    /\ pc' = [pc EXCEPT ![c] = "closeMatched"]
    /\ UNCHANGED <<arrived, mqBuf, mqSendq, waitingPlayer, MatchedChan, GameConcludedChan,
                   sessions, gameResults, task, taskInfo, connOpen, began, peerGone, callers>>

(* close(waitingPlayer.MatchedChan) (line 95) *)
CloseMatched(c) ==
    /\ pc[c] = "closeMatched"
    /\ MatchedChan' = [MatchedChan EXCEPT ![waitingPlayer[c]] = TRUE]
    /\ pc' = [pc EXCEPT ![c] = "waitConcluded"]
    /\ UNCHANGED <<arrived, mqBuf, mqSendq, waitingPlayer, GameConcludedChan, sessions,
                   gameResults, task, taskInfo, tcpOut, connOpen, began, peerGone, callers>>

(* matchmakingQueue <- queueEntry (line 106) *)
Requeue(c) ==
    /\ pc[c] = "requeue"
    /\ BlockingSend(c, c, "waitMatched", "requeueBlocked")
    /\ began' = [began EXCEPT ![c] = arrived]
    /\ UNCHANGED <<arrived, waitingPlayer, MatchedChan, GameConcludedChan, sessions,
                   gameResults, task, taskInfo, tcpOut, connOpen, peerGone, callers>>

(* <-queueEntry.MatchedChan (lines 61, 107) *)
Matched(c) ==
    /\ pc[c] = "waitMatched"
    /\ MatchedChan[c]
    /\ pc' = [pc EXCEPT ![c] = "waitConcluded"]
    /\ UNCHANGED <<arrived, mqBuf, mqSendq, waitingPlayer, MatchedChan, GameConcludedChan,
                   sessions, gameResults, task, taskInfo, tcpOut, connOpen, began, peerGone, callers>>

(* <-queueEntry.GameConcludedChan; return (lines 63-65, 99-101, 109-111); *)
(* handleConnection then closes the connection                             *)
Return(c) ==
    /\ pc[c] = "waitConcluded"
    /\ GameConcludedChan[c] > 0
    /\ pc' = [pc EXCEPT ![c] = "returned"]
    /\ connOpen' = [connOpen EXCEPT ![c] = FALSE]
    /\ UNCHANGED <<arrived, mqBuf, mqSendq, waitingPlayer, MatchedChan, GameConcludedChan,
                   sessions, gameResults, task, taskInfo, tcpOut, began, peerGone, callers>>

(* the states of the towers in which a session of the match can end *)
FinalTowers ==
    LET fresh == [t \in TowerIds |-> [hp |-> ConfigTowers[SpecOf(t)].BaseHP, destroyed |-> FALSE]]
    IN  {fresh, [fresh EXCEPT ![<<P2, Guard1>>] = [hp |-> 0, destroyed |-> TRUE]]}

(* the session of game g concludes: determineWinnerAndStop puts the *)
(* GameResultInfo on the results channel                             *)
SessionEnds(g) ==
    /\ sessions[g] = "running"
    /\ sessions' = [sessions EXCEPT ![g] = "over"]
    /\ \E tw \in FinalTowers :
         gameResults' = [gameResults EXCEPT ![g] =
             IF Len(@) < 1
             THEN Append(@, determineWinner("timeout", tw, [p \in Players |-> FALSE],
                                            [p \in Players |-> [EXP |-> 0, Level |-> 1]]))
             ELSE @]
    /\ UNCHANGED <<pc, arrived, mqBuf, mqSendq, waitingPlayer, MatchedChan, GameConcludedChan,
                   task, taskInfo, tcpOut, connOpen, began, peerGone, callers>>

(* handleGameResults: case resultInfo, ok := <-resultsChan (line 128) *)
TaskReceive(g) ==
    /\ task[g] = "select"
    /\ Len(gameResults[g]) > 0
    /\ taskInfo' = [taskInfo EXCEPT ![g] = <<Head(gameResults[g])>>]
    /\ gameResults' = [gameResults EXCEPT ![g] = Tail(@)]
    /\ task' = [task EXCEPT ![g] = "sendP1"]
    /\ UNCHANGED <<pc, arrived, mqBuf, mqSendq, waitingPlayer, MatchedChan, GameConcludedChan,
                   sessions, tcpOut, connOpen, began, peerGone, callers>>

(* the handleGameResults goroutine without the bounded wait *)
TaskNoTimeout(g) == FALSE /\ UNCHANGED vars

(* handleGameResults: case <-time.After(10 * time.Minute) (line 161) *)
TaskTimeout(g) ==
    /\ task[g] = "select"
    /\ task' = [task EXCEPT ![g] = "closeP1"]
    /\ UNCHANGED <<pc, arrived, mqBuf, mqSendq, waitingPlayer, MatchedChan, GameConcludedChan,
                   sessions, gameResults, taskInfo, tcpOut, connOpen, began, peerGone, callers>>

(* which part of the resultInfo goes to which player *)
ResultForSwapped(info, isPlayerOne) == IF isPlayerOne THEN info.Player2Result ELSE info.Player1Result

ResultFor(info, isPlayerOne) == IF isPlayerOne THEN info.Player1Result ELSE info.Player2Result

(* handleGameResults: send Player1Result to p1Entry.Connection (lines 140-148) *)
TaskSendP1(g) ==
    /\ task[g] = "sendP1"
    /\ tcpOut' = Encode(tcpOut, g[1], GameOverResults(ResultFor(taskInfo[g][1], TRUE)))
    /\ task' = [task EXCEPT ![g] = "sendP2"]
    /\ UNCHANGED <<pc, arrived, mqBuf, mqSendq, waitingPlayer, MatchedChan, GameConcludedChan,
                   sessions, gameResults, taskInfo, connOpen, began, peerGone, callers>>

(* handleGameResults: send Player2Result to p2Entry.Connection (lines 151-159) *)
TaskSendP2(g) ==
    /\ task[g] = "sendP2"
    /\ tcpOut' = Encode(tcpOut, g[2], GameOverResults(ResultFor(taskInfo[g][1], FALSE)))
    /\ task' = [task EXCEPT ![g] = "closeP1"]
    /\ UNCHANGED <<pc, arrived, mqBuf, mqSendq, waitingPlayer, MatchedChan, GameConcludedChan,
                   sessions, gameResults, taskInfo, connOpen, began, peerGone, callers>>

(* the deferred close(p1Entry.GameConcludedChan) (line 121) *)
TaskCloseP1(g) ==
    /\ task[g] = "closeP1"
    /\ GameConcludedChan' = [GameConcludedChan EXCEPT ![g[1]] = @ + 1]
    /\ task' = [task EXCEPT ![g] = "closeP2"]
    /\ UNCHANGED <<pc, arrived, mqBuf, mqSendq, waitingPlayer, MatchedChan, sessions,
                   gameResults, taskInfo, tcpOut, connOpen, began, peerGone, callers>>

(* deferred closes that close the first entry's channel a second time *)
TaskCloseP1Again(g) ==
    /\ task[g] = "closeP2"
    /\ GameConcludedChan' = [GameConcludedChan EXCEPT ![g[1]] = @ + 1]
    /\ task' = [task EXCEPT ![g] = "done"]
    /\ UNCHANGED <<pc, arrived, mqBuf, mqSendq, waitingPlayer, MatchedChan, sessions,
                   gameResults, taskInfo, tcpOut, connOpen, began, peerGone, callers>>

(* the deferred close(p2Entry.GameConcludedChan) (line 123) *)
TaskCloseP2(g) ==
    /\ task[g] = "closeP2"
    /\ GameConcludedChan' = [GameConcludedChan EXCEPT ![g[2]] = @ + 1]
    /\ task' = [task EXCEPT ![g] = "done"]
    /\ UNCHANGED <<pc, arrived, mqBuf, mqSendq, waitingPlayer, MatchedChan, sessions,
                   gameResults, taskInfo, tcpOut, connOpen, began, peerGone, callers>>

(* the client of a matched caller c drops its connection: later writes to *)
(* it fail                                                                *)
PeerCloses(c) ==
    /\ pc[c] \notin {"idle", "returned"}
    /\ \E g \in Games : sessions[g] # "none" /\ c \in {g[1], g[2]}
    /\ ~peerGone[c]
    /\ peerGone' = [peerGone EXCEPT ![c] = TRUE]
    /\ UNCHANGED <<pc, arrived, mqBuf, mqSendq, waitingPlayer, MatchedChan, GameConcludedChan,
                   sessions, gameResults, task, taskInfo, tcpOut, connOpen, began, callers>>

(* one step of caller c's HandleMatchmakingRequest *)
CallerStep(c) ==
    \/ Request(c) \/ InnerSelect(c) \/ CreateSession(c) \/ PutBack(c) \/ FailReturn(c)
    \/ Spawn(c) \/ NotifyP1(c) \/ NotifyP2(c) \/ CloseMatched(c) \/ Requeue(c)
    \/ Matched(c) \/ Return(c)

(* one step of the handleGameResults goroutine of game g *)
TaskStep(g) ==
    \/ TaskReceive(g) \/ TaskTimeout(g) \/ TaskSendP1(g) \/ TaskSendP2(g)
    \/ TaskCloseP1(g) \/ TaskCloseP2(g)

(* ------------------------------------------------------------------ *)
(* AuthManager (Login, Logout) and server.go: handleConnection         *)
(* ------------------------------------------------------------------ *)
Conns == 1..MaxConns
Usernames == {"alice", "bob"}
Passwords == {"pw", "px"}
RemoteAddrs == {"r1", "r2"}

NoConn == [phase |-> "idle", addr |-> "", user |-> "", password |-> "", result |-> "",
           holderGone |-> FALSE]

(* NewAuthManager; no account file yet; no connection accepted *)
AuthIdle ==
    /\ activeUsers = <<>>
    /\ accountFiles = <<>>
    /\ conns = [c \in Conns |-> NoConn]

Open(c) == conns[c].phase \notin {"idle", "closed"}

(* the deferred conn.Close() of handleConnection, after a return for 'why' *)
Closed(c, why) == [conns EXCEPT ![c].phase = "closed", ![c].result = why]

(* the server accepts a connection; conn.RemoteAddr() is the address of no *)
(* other open connection                                                   *)
Accept(c) ==
    /\ conns[c].phase = "idle"
    /\ \A d \in Conns : d < c => conns[d].phase # "idle"
    /\ \E a \in RemoteAddrs \ {conns[d].addr : d \in {x \in Conns : Open(x)}} :
         conns' = [conns EXCEPT ![c].phase = "decode", ![c].addr = a]
    /\ UNCHANGED <<activeUsers, accountFiles>>

(* decoder.Decode(&loginReq) (server.go 97-105) *)
Decode(c) ==
    /\ conns[c].phase = "decode"
    /\ \/ conns' = Closed(c, "no_request")
       \/ \E u \in Usernames \cup {""}, p \in Passwords \cup {""} :
            conns' = [conns EXCEPT ![c].phase = "login", ![c].user = u, ![c].password = p]
    /\ UNCHANGED <<activeUsers, accountFiles>>

(* Login, up to the lock (part_003 31-64): empty fields, the account file *)
(* loaded or created, the password compared; on an error handleConnection *)
(* answers with a failure and returns                                     *)
LoginAccount(c) ==
    LET u == conns[c].user
        p == conns[c].password
    IN  /\ conns[c].phase = "login"
        /\ IF u = "" \/ p = ""
           THEN conns' = Closed(c, "empty") /\ UNCHANGED accountFiles
           ELSE IF u \notin DOMAIN accountFiles
           THEN \/ /\ accountFiles' = (u :> p) @@ accountFiles
                   /\ conns' = [conns EXCEPT ![c].phase = "register"]
                \/ conns' = Closed(c, "error") /\ UNCHANGED accountFiles
           ELSE /\ UNCHANGED accountFiles
                /\ \/ conns' = Closed(c, "error")
                   \/ conns' = IF accountFiles[u] = p
                               THEN [conns EXCEPT ![c].phase = "register"]
                               ELSE Closed(c, "invalid")
        /\ UNCHANGED activeUsers

(* Login, under am.mu (part_003 66-81): the check of the registry and the *)
(* registration; holderGone notes whether the registered client's         *)
(* connection was already closed when a login was turned away             *)
Login(c) ==
    LET u == conns[c].user
        clientID == conns[c].addr
    IN  /\ conns[c].phase = "register"
        /\ IF u \in DOMAIN activeUsers
           THEN /\ UNCHANGED activeUsers
                /\ conns' = IF activeUsers[u] # clientID
                            THEN [Closed(c, "already_logged_in") EXCEPT
                                    ![c].holderGone =
                                        ~\E d \in Conns : Open(d) /\ conns[d].addr = activeUsers[u]]
                            ELSE [conns EXCEPT ![c].phase = "reply"]
           ELSE /\ activeUsers' = (u :> clientID) @@ activeUsers
                /\ conns' = [conns EXCEPT ![c].phase = "reply"]
        /\ UNCHANGED accountFiles

(* Logout (part_003 85-95) *)
Logout(users, username) ==
    IF username \in DOMAIN users
    THEN [x \in (DOMAIN users) \ {username} |-> users[x]]
    ELSE users

(* encoder.Encode(response) of the login success (server.go 119-125): *)
(* written, or failed and the registration rolled back                *)
Reply(c) ==
    /\ conns[c].phase = "reply"
    /\ \/ conns' = [conns EXCEPT ![c].phase = "matchmaking"] /\ UNCHANGED activeUsers
       \/ /\ activeUsers' = Logout(activeUsers, conns[c].user)
          /\ conns' = Closed(c, "reply_failed")
    /\ UNCHANGED accountFiles

(* a handler that logs the player out when matchmaking is over *)
MatchmakingReturnsLogout(c) ==
    /\ conns[c].phase = "matchmaking"
    /\ conns' = Closed(c, "served")
    /\ activeUsers' = Logout(activeUsers, conns[c].user)
    /\ UNCHANGED accountFiles

(* HandleMatchmakingRequest returns and handleConnection with it *)
(* (server.go 131-142)                                           *)
MatchmakingReturns(c) ==
    /\ conns[c].phase = "matchmaking"
    /\ conns' = Closed(c, "served")
    /\ UNCHANGED <<activeUsers, accountFiles>>

(* ------------------------------------------------------------------ *)
(* Client: SendDeployTroopCommand, manageResends, ListenForUDPMessages *)
(* ------------------------------------------------------------------ *)
Seqs == 1..MaxCmds

(* NewClient *)
ClientIdle ==
    /\ cnow = 0
    /\ nextSequenceNumber = 1
    /\ unacknowledgedDeployCommands = <<>>
    /\ allocated = {}
    /\ transmissions = [n \in Seqs |-> 0]
    /\ acked = {}
    /\ failures = {}
    /\ uiLog = {}

(* a critical section that reads the counter and leaves it as it was *)
SendAllocateNoIncrement ==
    /\ nextSequenceNumber <= MaxCmds
    /\ allocated' = allocated \cup {nextSequenceNumber}
    /\ nextSequenceNumber' = nextSequenceNumber
    /\ UNCHANGED <<cnow, unacknowledgedDeployCommands, transmissions, acked, failures, uiLog>>

(* SendDeployTroopCommand, first critical section: take a sequence number *)
SendAllocate ==
    /\ nextSequenceNumber <= MaxCmds
    /\ allocated' = allocated \cup {nextSequenceNumber}
    /\ nextSequenceNumber' = nextSequenceNumber + 1
    /\ UNCHANGED <<cnow, unacknowledgedDeployCommands, transmissions, acked, failures, uiLog>>

(* SendDeployTroopCommand, the rest: write the datagram and, if the write *)
(* succeeded, track the command as unacknowledged                         *)
SendWrite(n) ==
    /\ n \in allocated
    /\ allocated' = allocated \ {n}
    /\ \/ /\ transmissions' = [transmissions EXCEPT ![n] = @ + 1]
          /\ unacknowledgedDeployCommands' =
                 (n :> [Message |-> [Seq |-> n], SentAt |-> cnow, RetryCount |-> 0])
                     @@ unacknowledgedDeployCommands
       \/ UNCHANGED <<transmissions, unacknowledgedDeployCommands>>
    /\ UNCHANGED <<cnow, nextSequenceNumber, acked, failures, uiLog>>

(* time.Since(SentAt) > ResendTimeout at the tick of time t; when the tick *)
(* falls right on the timeout, scheduling decides (late)                   *)
Expired(info, t, late) ==
    t - info.SentAt > ResendTimeout \/ (t - info.SentAt = ResendTimeout /\ late)

(* manageResends: the body of the loop over the table for one entry; r is *)
(* the table un, the datagram counts tx and the failures shown fl         *)
ResendStep(r, n, t, late, written) ==
    LET info == r.un[n]
    IN  IF ~Expired(info, t, late) THEN r
        ELSE IF info.RetryCount < MaxResends
        THEN IF written
             THEN [r EXCEPT !.un[n] = [info EXCEPT !.SentAt = t, !.RetryCount = @ + 1],
                            !.tx[info.Message.Seq] = @ + 1]
             ELSE r
        ELSE [r EXCEPT !.un = [x \in (DOMAIN @) \ {n} |-> @[x]],
                       !.fl = @ \cup {n}]

RECURSIVE ResendPass(_, _, _)
ResendPass(r, rem, t) ==
    IF rem = {} THEN {r}
    ELSE LET n == CHOOSE x \in rem : TRUE
         IN  UNION {ResendPass(ResendStep(r, n, t, late, written), rem \ {n}, t)
                    : late \in BOOLEAN, written \in BOOLEAN}

(* Past ClientClock the clock is folded: the tick after ClientClock + 1   *)
(* sets it back to ClientClock and moves every SentAt two periods back,  *)
(* which keeps every age; an age beyond the timeout is kept at           *)
(* ResendTimeout + 1, all such ages being alike to Expired               *)
Rebase(un) ==
    [n \in DOMAIN un |->
        [un[n] EXCEPT !.SentAt = IF @ - 2 < ClientClock - ResendTimeout - 1
                                 THEN ClientClock - ResendTimeout - 1 ELSE @ - 2]]

(* manageResends: one tick of its 500 ms ticker *)
manageResends ==
    LET t == IF cnow <= ClientClock THEN cnow + 1 ELSE ClientClock
        un == IF cnow <= ClientClock THEN unacknowledgedDeployCommands
              ELSE Rebase(unacknowledgedDeployCommands)
    IN  /\ cnow' = t
        /\ \E r \in ResendPass([un |-> un, tx |-> transmissions, fl |-> failures],
                               DOMAIN un, t) :
             /\ unacknowledgedDeployCommands' = r.un
             /\ transmissions' = r.tx
             /\ failures' = r.fl
        /\ UNCHANGED <<nextSequenceNumber, allocated, acked, uiLog>>

(* datagrams the session sends to this client: a command-ack for a command *)
(* that reached it, a game event, a state snapshot                         *)
ClientInbound ==
    {[Type |-> "command_ack", AckSeq |-> n] : n \in {x \in Seqs : transmissions[x] > 0}}
    \cup {[Type |-> "game_event", AckSeq |-> 0], [Type |-> "game_state_update", AckSeq |-> 0]}

(* ListenForUDPMessages: one datagram read and dispatched on its type; a *)
(* type without a case is logged and otherwise ignored                   *)
ListenForUDPMessages(m) ==
    /\ acked' = IF m.Type = "command_ack" THEN acked \cup {m.AckSeq} ELSE acked
    /\ uiLog' = IF m.Type \in {"game_state_update", "game_event"} THEN uiLog \cup {m.Type}
                ELSE uiLog
    /\ UNCHANGED <<cnow, nextSequenceNumber, unacknowledgedDeployCommands, allocated,
                   transmissions, failures>>

SInit ==
    /\ SessionInit
    /\ net = PlayerDatagrams
    /\ recvLeft = MaxRecv
    /\ horizon = MaxClock
    /\ MMIdle
    /\ callers = 0
    /\ ClientIdle
    /\ CalcIdle
    /\ UpdIdle
    /\ FindIdle
    /\ AuthIdle

SNext ==
    \/ Tick /\ UNCHANGED <<mvars, cvars, dvars, avars>>
    \/ HandleAction /\ UNCHANGED <<mvars, cvars, dvars, avars>>
    \/ Receive /\ UNCHANGED <<mvars, cvars, dvars, avars>>

Spec == SInit /\ [][SNext]_vars

(* a long quiet match: few commands, mostly queens, and enough time for *)
(* the mana of an idle player to reach the cap                          *)
ManaDatagrams ==
    {Deploy(P1, SessionID, q, "queen", AddrOf(P1)) : q \in {1, 2}}
    \cup {Deploy(P1, SessionID, 1, "pawn", AddrOf(P1)),
          Deploy(P2, SessionID, 1, "queen", AddrOf(P2))}

ManaInit ==
    /\ SessionInit
    /\ net = ManaDatagrams
    /\ recvLeft = ManaRecv
    /\ horizon = ManaClock
    /\ MMIdle
    /\ callers = 0
    /\ ClientIdle
    /\ CalcIdle
    /\ UpdIdle
    /\ FindIdle
    /\ AuthIdle

ManaSpec == ManaInit /\ [][SNext]_vars


(* a match between a seasoned player 1 and a beginner: a level-7 pawn  *)
(* outlives the towers' fire long enough to bring a king tower down    *)
KingDatagrams ==
    {Deploy(P1, SessionID, 1, "pawn", AddrOf(P1)),
     Deploy(P1, SessionID, 2, "queen", AddrOf(P1)),
     Deploy(P2, SessionID, 1, "pawn", AddrOf(P2))}

KingInit ==
    /\ SessionInitAt([p \in Players |-> IF p = P1 THEN 7 ELSE 1])
    /\ net = KingDatagrams
    /\ recvLeft = KingRecv
    /\ horizon = KingClock
    /\ MMIdle
    /\ callers = 0
    /\ ClientIdle
    /\ CalcIdle
    /\ UpdIdle
    /\ FindIdle
    /\ AuthIdle

KingSpec == KingInit /\ [][SNext]_vars

(* a short match in which player 2 sends a knight and player 1 answers *)
(* with queens                                                         *)
QueenDatagrams ==
    {Deploy(P2, SessionID, 1, "knight", AddrOf(P2)),
     Deploy(P2, SessionID, 2, "queen", AddrOf(P2)),
     Deploy(P1, SessionID, 1, "queen", AddrOf(P1))}

QueenInit ==
    /\ SessionInit
    /\ net = QueenDatagrams
    /\ recvLeft = QueenRecv
    /\ horizon = QueenClock
    /\ MMIdle
    /\ callers = 0
    /\ ClientIdle
    /\ CalcIdle
    /\ UpdIdle
    /\ FindIdle
    /\ AuthIdle

QueenSpec == QueenInit /\ [][SNext]_vars

(* a match whose port also receives datagrams that are not the players' *)
StrayInit ==
    /\ SessionInit
    /\ net = StrayDatagrams \cup {Deploy(p, SessionID, 1, "pawn", AddrOf(p)) : p \in Players}
    /\ recvLeft = StrayRecv
    /\ horizon = StrayClock
    /\ MMIdle
    /\ callers = 0
    /\ ClientIdle
    /\ CalcIdle
    /\ UpdIdle
    /\ FindIdle
    /\ AuthIdle

StraySpec == StrayInit /\ [][SNext]_vars

(* a burst of datagrams: more than the command channel holds, read while *)
(* the loop is busy or before it gets to run                              *)
QueueInit ==
    /\ SessionInit
    /\ net = {Deploy(p, SessionID, 1, "ghost", AddrOf(p)) : p \in Players}
    /\ recvLeft = QueueRecv
    /\ horizon = 0
    /\ towerOrder[P1] = <<King, Guard1, Guard2>>
    /\ MMIdle
    /\ callers = 0
    /\ ClientIdle
    /\ CalcIdle
    /\ UpdIdle
    /\ FindIdle
    /\ AuthIdle

QueueSpec == QueueInit /\ [][SNext]_vars

(* the end of a match that was quiet so far: every tick ran on time, no  *)
(* datagram came, and the clients send their first commands now          *)
QuietUntil(t0) ==
    LET m == IF InitialMana + (t0 \div RegenInterval) > MaxMana THEN MaxMana
             ELSE InitialMana + (t0 \div RegenInterval)
    IN  /\ now = t0
        /\ level = [p \in Players |-> 1]
        /\ towerName = ConfigNames
        /\ account = [p \in Players |-> [EXP |-> 0, Level |-> 1]]
        /\ mana = [p \in Players |-> m]
        /\ \E o \in TowerOrders : towerOrder = [p \in Players |-> o]
        /\ towers = FreshTowers
        /\ troopObj = <<>>
        /\ activeTroops = {}
        /\ deployedTroops = [p \in Players |-> {}]
        /\ lastManaRegen = t0 - (t0 % RegenInterval)
        /\ lastTroopAttack = <<>>
        /\ lastTowerAttack = [x \in GSIDs |-> t0 - (t0 % AttackInterval)]
        /\ quit = [p \in Players |-> FALSE]
        /\ processed = [p \in Players |-> {}]
        /\ addrs = [t \in Tokens |-> NoAddr]
        /\ playerActions = <<>>
        /\ isGameOver = FALSE
        /\ loopDone = FALSE
        /\ endReason = ""
        /\ resultsChan = <<>>
        /\ udpOpen = TRUE
        /\ concludeCount = 0
        /\ sent = {}
        /\ snapshot = [to |-> {}, time |-> MatchDuration - t0, mana |-> <<m, m>>,
                       towers |-> {<<x, FreshTowers[x].hp, FALSE>> : x \in TowerIds},
                       troops |-> {}]
        /\ nextTroop = 1

DeadlineDatagrams ==
    {Deploy(P1, SessionID, 1, "pawn", AddrOf(P1)),
     Deploy(P1, SessionID, 2, "queen", AddrOf(P1)),
     Deploy(P2, SessionID, 1, "pawn", AddrOf(P2))}

DeadlineInit ==
    /\ QuietUntil(MatchDuration - DeadlineLead)
    /\ net = DeadlineDatagrams
    /\ recvLeft = DeadlineRecv
    /\ horizon = MatchDuration + 1
    /\ MMIdle
    /\ callers = 0
    /\ ClientIdle
    /\ CalcIdle
    /\ UpdIdle
    /\ FindIdle
    /\ AuthIdle

DeadlineSpec == DeadlineInit /\ [][SNext]_vars

(* the matchmaker alone: the session variables keep their initial values *)
MMInit ==
    /\ SessionInit
    /\ net = {}
    /\ recvLeft = 0
    /\ horizon = 0
    /\ towerOrder[P1] = <<King, Guard1, Guard2>>
    /\ MMIdle
    /\ callers = MaxCallers
    /\ ClientIdle
    /\ CalcIdle
    /\ UpdIdle
    /\ FindIdle
    /\ AuthIdle

MMNext ==
    \/ \E c \in Callers : Request(c) /\ UNCHANGED <<svars, cvars, dvars, avars>>
    \/ \E c \in Callers : InnerSelect(c) /\ UNCHANGED <<svars, cvars, dvars, avars>>
    \/ \E c \in Callers : CreateSession(c) /\ UNCHANGED <<svars, cvars, dvars, avars>>
    \/ \E c \in Callers : PutBack(c) /\ UNCHANGED <<svars, cvars, dvars, avars>>
    \/ \E c \in Callers : FailReturn(c) /\ UNCHANGED <<svars, cvars, dvars, avars>>
    \/ \E c \in Callers : Spawn(c) /\ UNCHANGED <<svars, cvars, dvars, avars>>
    \/ \E c \in Callers : NotifyP1(c) /\ UNCHANGED <<svars, cvars, dvars, avars>>
    \/ \E c \in Callers : NotifyP2(c) /\ UNCHANGED <<svars, cvars, dvars, avars>>
    \/ \E c \in Callers : CloseMatched(c) /\ UNCHANGED <<svars, cvars, dvars, avars>>
    \/ \E c \in Callers : Requeue(c) /\ UNCHANGED <<svars, cvars, dvars, avars>>
    \/ \E c \in Callers : Matched(c) /\ UNCHANGED <<svars, cvars, dvars, avars>>
    \/ \E c \in Callers : Return(c) /\ UNCHANGED <<svars, cvars, dvars, avars>>
    \/ \E g \in Games : SessionEnds(g) /\ UNCHANGED <<svars, cvars, dvars, avars>>
    \/ \E g \in Games : TaskReceive(g) /\ UNCHANGED <<svars, cvars, dvars, avars>>
    \/ \E g \in Games : TaskTimeout(g) /\ UNCHANGED <<svars, cvars, dvars, avars>>
    \/ \E g \in Games : TaskSendP1(g) /\ UNCHANGED <<svars, cvars, dvars, avars>>
    \/ \E g \in Games : TaskSendP2(g) /\ UNCHANGED <<svars, cvars, dvars, avars>>
    \/ \E g \in Games : TaskCloseP1(g) /\ UNCHANGED <<svars, cvars, dvars, avars>>
    \/ \E g \in Games : TaskCloseP2(g) /\ UNCHANGED <<svars, cvars, dvars, avars>>

MMSpec == MMInit /\ [][MMNext]_vars

(* a step of a request under way or of a result-delivery goroutine *)
Progress ==
    /\ \/ \E c \in Callers : pc[c] # "idle" /\ CallerStep(c)
       \/ \E g \in Games : TaskStep(g)
    /\ UNCHANGED <<svars, cvars, dvars, avars>>

(* the scheduler does not stop while a goroutine can run and the timer of *)
(* the bounded wait fires; nothing obliges a session to conclude, a new   *)
(* caller to arrive or a client to drop its connection                    *)
MMFair == WF_vars(Progress)

(* the same matchmaker with fewer callers *)
MatchInit ==
    /\ SessionInit
    /\ net = {}
    /\ recvLeft = 0
    /\ horizon = 0
    /\ towerOrder[P1] = <<King, Guard1, Guard2>>
    /\ MMIdle
    /\ callers = MatchCallers
    /\ ClientIdle
    /\ CalcIdle
    /\ UpdIdle
    /\ FindIdle
    /\ AuthIdle

MatchSpec == MatchInit /\ [][MMNext]_vars

LiveInit ==
    /\ SessionInit
    /\ net = {}
    /\ recvLeft = 0
    /\ horizon = 0
    /\ towerOrder[P1] = <<King, Guard1, Guard2>>
    /\ MMIdle
    /\ callers = LiveCallers
    /\ ClientIdle
    /\ CalcIdle
    /\ UpdIdle
    /\ FindIdle
    /\ AuthIdle

(* one client alone *)
ClientInit ==
    /\ SessionInit
    /\ net = {}
    /\ recvLeft = 0
    /\ horizon = 0
    /\ towerOrder[P1] = <<King, Guard1, Guard2>>
    /\ MMIdle
    /\ callers = 0
    /\ ClientIdle
    /\ CalcIdle
    /\ UpdIdle
    /\ FindIdle
    /\ AuthIdle

ClientNext ==
    \/ SendAllocate /\ UNCHANGED <<svars, mvars, dvars, avars>>
    \/ \E n \in Seqs : SendWrite(n) /\ UNCHANGED <<svars, mvars, dvars, avars>>
    \/ manageResends /\ UNCHANGED <<svars, mvars, dvars, avars>>
    \/ \E m \in ClientInbound : ListenForUDPMessages(m) /\ UNCHANGED <<svars, mvars, dvars, avars>>

ClientSpec == ClientInit /\ [][ClientNext]_vars

(* a client whose server stays silent *)
ResendNext ==
    \/ SendAllocate /\ UNCHANGED <<svars, mvars, dvars, avars>>
    \/ \E n \in Seqs : SendWrite(n) /\ UNCHANGED <<svars, mvars, dvars, avars>>
    \/ manageResends /\ UNCHANGED <<svars, mvars, dvars, avars>>

(* the ticker of manageResends keeps firing; nothing obliges a write to *)
(* the UDP socket to succeed                                            *)
ResendFair == WF_vars(manageResends /\ UNCHANGED <<svars, mvars, dvars, avars>>)

ResendSpec == ClientInit /\ [][ResendNext]_vars /\ ResendFair

LiveNext ==
    \/ MMNext
    \/ \E c \in Callers : PeerCloses(c) /\ UNCHANGED <<svars, cvars, dvars, avars>>

LiveSpec == LiveInit /\ [][LiveNext]_vars /\ MMFair

(* ------------------------------------------------------------------ *)
(* CalculateDamage on its own                                          *)
(* ------------------------------------------------------------------ *)
Stats == (0 - MaxStat)..MaxStat

(* towerCritChance and the value of rand.Float64(), which lies in [0, 1), *)
(* both in tenths                                                         *)
CritChances == {0, 5, 10}
RandDraws == {0, 4, 9}

(* the arguments of one call, and the draw the call will make *)
CalcInit ==
    /\ SessionInit
    /\ net = {}
    /\ recvLeft = 0
    /\ horizon = 0
    /\ towerOrder[P1] = <<King, Guard1, Guard2>>
    /\ MMIdle
    /\ callers = 0
    /\ ClientIdle
    /\ calc \in [atk : Stats, def : Stats, isTowerAttack : BOOLEAN, chance : CritChances,
                 draw : RandDraws, done : {FALSE}, dmg : {0}]
    /\ UpdIdle
    /\ FindIdle
    /\ AuthIdle

(* the call returns *)
CalcReturn ==
    /\ ~calc.done
    /\ calc' = [calc EXCEPT !.done = TRUE,
                            !.dmg = CalculateDamage(calc.atk, calc.def, calc.isTowerAttack,
                                                    calc.draw < calc.chance)]

CalcNext == CalcReturn /\ UNCHANGED <<svars, mvars, cvars, upd, find, avars>>

CalcSpec == CalcInit /\ [][CalcNext]_vars

(* ------------------------------------------------------------------ *)
(* UpdatePlayerAfterGame on its own                                    *)
(* ------------------------------------------------------------------ *)
(* the EXP an account is stored with and the EXP a match can award *)
StoredEXP == {0, 1, 50, 99, 100, 109, 120}
Awards == {0, 1, 10, 30, 60, 99, 100, 110, 130, 209, 210, 230, 331, 430, 464}

(* the account passed to one call, and the award *)
LevelInit ==
    /\ SessionInit
    /\ net = {}
    /\ recvLeft = 0
    /\ horizon = 0
    /\ towerOrder[P1] = <<King, Guard1, Guard2>>
    /\ MMIdle
    /\ callers = 0
    /\ ClientIdle
    /\ CalcIdle
    /\ FindIdle
    /\ AuthIdle
    /\ \E e \in StoredEXP, l \in 1..MaxLevel, x \in Awards :
         upd = [acc |-> [EXP |-> e, Level |-> l], expGained |-> x, done |-> FALSE,
                EXP |-> e, Level |-> l, didLevelUp |-> FALSE]

(* the call returns: acc.EXP and acc.Level as it leaves them, and its flag *)
UpdReturn ==
    /\ ~upd.done
    /\ LET a == UpdatePlayerAfterGame(upd.acc, upd.expGained)
       IN  upd' = [upd EXCEPT !.done = TRUE, !.EXP = a.EXP, !.Level = a.Level,
                              !.didLevelUp = a.up]

LevelNext == UpdReturn /\ UNCHANGED <<svars, mvars, cvars, calc, find, avars>>

LevelSpec == LevelInit /\ [][LevelNext]_vars

(* ------------------------------------------------------------------ *)
(* FindTroopToAttack and FindLowestHPTower on their own                *)
(* ------------------------------------------------------------------ *)
Quiet ==
    /\ SessionInit
    /\ net = {}
    /\ recvLeft = 0
    /\ horizon = 0
    /\ towerOrder[P1] = <<King, Guard1, Guard2>>
    /\ MMIdle
    /\ callers = 0
    /\ ClientIdle
    /\ CalcIdle
    /\ UpdIdle
    /\ AuthIdle

TroopIds(p) == {<<p, n>> : n \in 1..MaxTroops}
TroopHPs == {0, 50}

(* the game passed to one call of FindTroopToAttack: the tower's owner and *)
(* the opponent's DeployedTroops                                           *)
FindTroopInit ==
    /\ Quiet
    /\ \E owner \in Players :
         \E ids \in SUBSET TroopIds(OpponentOf(owner)) :
           \E tr \in [ids -> [hp : TroopHPs, deployedAt : 0..MaxDeployTime]] :
             find = [fn |-> "FindTroopToAttack", id |-> owner, tr |-> tr,
                     dep |-> [p \in Players |-> IF p = owner THEN {} ELSE ids],
                     tw |-> FreshTowers, order |-> [p \in Players |-> <<King, Guard1, Guard2>>],
                     done |-> FALSE, troop |-> NoTroop, tower |-> NoTower]

FindTroopReturn ==
    /\ find.fn = "FindTroopToAttack"
    /\ ~find.done
    /\ \E r \in FindTroopToAttack(find.id, find.tr, find.dep) :
         find' = [find EXCEPT !.done = TRUE, !.troop = r]

FindTroopNext == FindTroopReturn /\ UNCHANGED <<svars, mvars, cvars, calc, upd, avars>>

FindTroopSpec == FindTroopInit /\ [][FindTroopNext]_vars

TowerHPs == {0, 100, 200, 300}

(* the game passed to one call of FindLowestHPTower: the attacking player *)
(* and the towers, in either construction order                           *)
FindTowerInit ==
    /\ Quiet
    /\ \E attacker \in Players, o \in TowerOrders :
         \E hps \in [TowerSpecIDs -> TowerHPs] :
           find = [fn |-> "FindLowestHPTower", id |-> attacker, tr |-> <<>>,
                   dep |-> [p \in Players |-> {}],
                   tw |-> [t \in TowerIds |->
                             IF OwnerOf(t) = attacker THEN FreshTowers[t]
                             ELSE [hp |-> hps[SpecOf(t)], destroyed |-> hps[SpecOf(t)] = 0]],
                   order |-> [p \in Players |-> o],
                   done |-> FALSE, troop |-> NoTroop, tower |-> NoTower]

FindTowerReturn ==
    /\ find.fn = "FindLowestHPTower"
    /\ ~find.done
    /\ find' = [find EXCEPT !.done = TRUE,
                            !.tower = FindLowestHPTower(find.id, find.tw, find.order)]

FindTowerNext == FindTowerReturn /\ UNCHANGED <<svars, mvars, cvars, calc, upd, avars>>

FindTowerSpec == FindTowerInit /\ [][FindTowerNext]_vars

(* a session late in a match: both first guard towers are down and both *)
(* king towers are one pawn hit from falling; each player's first troop *)
(* was defeated and each can deploy another                             *)
EndgameTowers ==
    [t \in TowerIds |->
        IF SpecOf(t) = Guard1 THEN [hp |-> 0, destroyed |-> TRUE]
        ELSE IF SpecOf(t) = King THEN [hp |-> 100, destroyed |-> FALSE]
        ELSE FreshTowers[t]]

EndgameDatagrams == {Deploy(p, SessionID, 2, "pawn", AddrOf(p)) : p \in Players}

EndgameInit ==
    /\ now = EndgameStart
    /\ level = [p \in Players |-> 1]
    /\ towerName = ConfigNames
    /\ account = [p \in Players |-> [EXP |-> 0, Level |-> 1]]
    /\ mana = [p \in Players |-> InitialMana]
    /\ \E o \in TowerOrders : towerOrder = [p \in Players |-> o]
    /\ towers = EndgameTowers
    /\ troopObj = <<>>
    /\ activeTroops = {}
    /\ deployedTroops = [p \in Players |-> {}]
    /\ lastManaRegen = EndgameStart
    /\ lastTroopAttack = (<<P1, 1>> :> 0) @@ (<<P2, 2>> :> 0)
    /\ lastTowerAttack = [x \in GSIDs |-> EndgameStart]
    /\ quit = [p \in Players |-> FALSE]
    /\ processed = [p \in Players |-> {1}]
    /\ addrs = [t \in Tokens |-> IF t \in Players THEN AddrOf(t) ELSE NoAddr]
    /\ playerActions = <<>>
    /\ isGameOver = FALSE
    /\ loopDone = FALSE
    /\ endReason = ""
    /\ resultsChan = <<>>
    /\ udpOpen = TRUE
    /\ concludeCount = 0
    /\ sent = {}
    /\ snapshot = [to |-> Players, time |-> MatchDuration - EndgameStart,
                   mana |-> <<InitialMana, InitialMana>>,
                   towers |-> {<<x, EndgameTowers[x].hp, EndgameTowers[x].destroyed>> : x \in TowerIds},
                   troops |-> {}]
    /\ nextTroop = 3
    /\ net = EndgameDatagrams
    /\ recvLeft = EndgameRecv
    /\ horizon = EndgameStart + EndgameLength
    /\ MMIdle
    /\ callers = 0
    /\ ClientIdle
    /\ CalcIdle
    /\ UpdIdle
    /\ FindIdle
    /\ AuthIdle

EndgameSpec == EndgameInit /\ [][SNext]_vars

(* a session in which player 1 has spent all mana on a queen (sequence *)
(* number 1) before the first tick, and whose client then sends a pawn *)
(* deploy with sequence number 2 and retransmits it                    *)
RetryDatagrams == {Deploy(P1, SessionID, 2, "pawn", AddrOf(P1))}

RetryInit ==
    /\ now = 0
    /\ level = [p \in Players |-> 1]
    /\ towerName = ConfigNames
    /\ account = [p \in Players |-> [EXP |-> 0, Level |-> 1]]
    /\ mana = [p \in Players |-> IF p = P1 THEN InitialMana - ConfigTroops["queen"].ManaCost
                                  ELSE InitialMana]
    /\ \E o \in TowerOrders : towerOrder = [p \in Players |-> o]
    /\ towers = FreshTowers
    /\ troopObj = <<>>
    /\ activeTroops = {}
    /\ deployedTroops = [p \in Players |-> {}]
    /\ lastManaRegen = 0
    /\ lastTroopAttack = <<>>
    /\ lastTowerAttack = [x \in GSIDs |-> 0]
    /\ quit = [p \in Players |-> FALSE]
    /\ processed = [p \in Players |-> IF p = P1 THEN {1} ELSE {}]
    /\ addrs = [t \in Tokens |-> IF t = P1 THEN AddrOf(P1) ELSE NoAddr]
    /\ playerActions = <<>>
    /\ isGameOver = FALSE
    /\ loopDone = FALSE
    /\ endReason = ""
    /\ resultsChan = <<>>
    /\ udpOpen = TRUE
    /\ concludeCount = 0
    /\ sent = ToAll(addrs, "QueenHeal", NoTower, NoTroop, 0) \cup AckTo(P1, 1)
    /\ snapshot = NoSnapshot
    /\ nextTroop = 1
    /\ net = RetryDatagrams
    /\ recvLeft = RetryRecv
    /\ horizon = RetryClock
    /\ MMIdle
    /\ callers = 0
    /\ ClientIdle
    /\ CalcIdle
    /\ UpdIdle
    /\ FindIdle
    /\ AuthIdle

RetrySpec == RetryInit /\ [][SNext]_vars

(* sessions over configurations whose guard tower specs carry any of *)
(* these display names, the king tower spec its own; player 1 sends  *)
(* a knight                                                          *)
GuardNames == {"Guard Tower 1", "Guard Tower 2", "Guard Tower", ""}

NameDatagrams == {Deploy(P1, SessionID, 1, "knight", AddrOf(P1))}

NameInit ==
    /\ \E n1 \in GuardNames, n2 \in GuardNames :
         SessionInitWith([p \in Players |-> 1],
                         [s \in TowerSpecIDs |->
                            IF s = Guard1 THEN n1 ELSE IF s = Guard2 THEN n2 ELSE ConfigNames[s]])
    /\ net = NameDatagrams
    /\ recvLeft = NameRecv
    /\ horizon = NameClock
    /\ MMIdle
    /\ callers = 0
    /\ ClientIdle
    /\ CalcIdle
    /\ UpdIdle
    /\ FindIdle
    /\ AuthIdle

NameSpec == NameInit /\ [][SNext]_vars

(* the server's connections, with no match under way *)
AuthInit ==
    /\ SessionInit
    /\ net = {}
    /\ recvLeft = 0
    /\ horizon = 0
    /\ towerOrder[P1] = <<King, Guard1, Guard2>>
    /\ MMIdle
    /\ callers = 0
    /\ ClientIdle
    /\ CalcIdle
    /\ UpdIdle
    /\ FindIdle
    /\ AuthIdle

AuthNext ==
    \/ \E c \in Conns : Accept(c) /\ UNCHANGED <<svars, mvars, cvars, dvars>>
    \/ \E c \in Conns : Decode(c) /\ UNCHANGED <<svars, mvars, cvars, dvars>>
    \/ \E c \in Conns : LoginAccount(c) /\ UNCHANGED <<svars, mvars, cvars, dvars>>
    \/ \E c \in Conns : Login(c) /\ UNCHANGED <<svars, mvars, cvars, dvars>>
    \/ \E c \in Conns : Reply(c) /\ UNCHANGED <<svars, mvars, cvars, dvars>>
    \/ \E c \in Conns : MatchmakingReturns(c) /\ UNCHANGED <<svars, mvars, cvars, dvars>>

AuthSpec == AuthInit /\ [][AuthNext]_vars

(* the reasons determineWinnerAndStop distinguishes, and one it does not *)
Reasons == {"king_tower_destroyed", "timeout", "player_quit", "stopped"}

(* the session passed to one call of determineWinnerAndStop: any set of *)
(* destroyed towers and any quit flags                                  *)
ConcludeInit ==
    /\ now = 0
    /\ level = [p \in Players |-> 1]
    /\ towerName = ConfigNames
    /\ account = [p \in Players |-> [EXP |-> 0, Level |-> 1]]
    /\ mana = [p \in Players |-> InitialMana]
    /\ towerOrder = [p \in Players |-> <<King, Guard1, Guard2>>]
    /\ \E D \in SUBSET TowerIds :
         towers = [t \in TowerIds |->
                     IF t \in D THEN [hp |-> 0, destroyed |-> TRUE] ELSE FreshTowers[t]]
    /\ troopObj = <<>>
    /\ activeTroops = {}
    /\ deployedTroops = [p \in Players |-> {}]
    /\ lastManaRegen = 0
    /\ lastTroopAttack = <<>>
    /\ lastTowerAttack = [x \in GSIDs |-> 0]
    /\ quit \in [Players -> BOOLEAN]
    /\ processed = [p \in Players |-> {}]
    /\ addrs = [t \in Tokens |-> NoAddr]
    /\ playerActions = <<>>
    /\ isGameOver = FALSE
    /\ loopDone = FALSE
    /\ endReason = ""
    /\ resultsChan = <<>>
    /\ udpOpen = TRUE
    /\ concludeCount = 0
    /\ sent = {}
    /\ snapshot = NoSnapshot
    /\ nextTroop = 1
    /\ net = {}
    /\ recvLeft = 0
    /\ horizon = 0
    /\ MMIdle
    /\ callers = 0
    /\ ClientIdle
    /\ CalcIdle
    /\ UpdIdle
    /\ FindIdle
    /\ AuthIdle

ConcludeCall ==
    /\ ~isGameOver
    /\ \E reason \in Reasons : determineWinnerAndStop(reason, towers)
    /\ sent' = {}
    /\ snapshot' = NoSnapshot
    /\ UNCHANGED <<now, level, mana, towers, towerOrder, towerName, troopObj, activeTroops, deployedTroops,
                   lastManaRegen, lastTroopAttack, lastTowerAttack, quit, processed, addrs,
                   playerActions, loopDone, nextTroop, net, recvLeft, horizon>>

ConcludeNext == ConcludeCall /\ UNCHANGED <<mvars, cvars, dvars, avars>>

ConcludeSpec == ConcludeInit /\ [][ConcludeNext]_vars

(* ------------------------------------------------------------------ *)
(* Properties of the session                                           *)
(* ------------------------------------------------------------------ *)
(* the loop is taking a command off the channel and handling it *)
Handling == Len(playerActions) > 0 /\ playerActions' = Tail(playerActions) /\ ~isGameOver

DuplicateAtHead ==
    LET msg == Head(playerActions)
    IN  /\ msg.sid = SessionID
        /\ msg.type = "deploy_troop"
        /\ msg.token \in Players
        /\ msg.seq \in processed[msg.token]

(* C1: when the session handles a deploy command whose (token, sequence  *)
(* number) it has already processed, the player's mana and the troop     *)
(* collections stay as they are and a command-ack with that sequence     *)
(* number is sent to that player again.                                  *)
C1_DuplicateNotReapplied ==
    [][(Handling /\ DuplicateAtHead) =>
          /\ mana' = mana
          /\ troopObj' = troopObj
          /\ activeTroops' = activeTroops
          /\ deployedTroops' = deployedTroops
          /\ towers' = towers
          /\ processed' = processed
          /\ Ack(Head(playerActions).token, Head(playerActions).seq) \in sent']_vars

(* a duplicate was just handled: the only datagram of the step is the ack *)
C1_Witness ==
    \E p \in Players : \E q \in processed[p] :
        sent = {Ack(p, q)} /\ mana[p] < InitialMana

(* C2: each player's mana is between 0 and 10 in every reachable state. *)
C2_ManaInRange == \A p \in Players : mana[p] \in 0..10

(* one player spent everything while the idle one sat at the cap through *)
(* a further regeneration                                                *)
C2_Witness ==
    /\ mana[P1] = 0
    /\ mana[P2] = MaxMana
    /\ processed[P2] = {}
    /\ lastManaRegen >= 6 * RegenInterval

(* C3: as long as a player's first guard tower has HP > 0, that player's *)
(* king tower and second guard tower have taken no damage.               *)
C3_GuardTowerGate ==
    \A p \in Players :
        towers[<<p, Guard1>>].hp > 0 =>
            /\ towers[<<p, King>>].hp = TowerMaxHP(<<p, King>>)
            /\ towers[<<p, Guard2>>].hp = TowerMaxHP(<<p, Guard2>>)

(* the first guard tower fell and a troop has moved on to another tower *)
C3_Witness ==
    \E p \in Players :
        /\ towers[<<p, Guard1>>].hp = 0
        /\ \E s \in {King, Guard2} : towers[<<p, s>>].hp < TowerMaxHP(<<p, s>>)

(* C4, as stated: once both players' quit messages are processed, the   *)
(* session ends with reason player_quit; so a session that has ended     *)
(* after both quits ended for that reason.                               *)
C4_BothQuitConcludes ==
    (quit[P1] /\ quit[P2] /\ isGameOver) => endReason = "player_quit"


(* ------------------------------------------------------------------ *)
(* Properties of the matchmaker                                        *)
(* ------------------------------------------------------------------ *)
InSession(c) == \E g \in Games : sessions[g] # "none" /\ c \in {g[1], g[2]}

(* the caller's entry is in the queue, or on its way in, and nobody has *)
(* paired it or is creating a session for it                            *)
Unmatched(a) ==
    /\ began[a] > 0
    /\ pc[a] \in {"waitMatched", "requeueBlocked"}
    /\ ~InSession(a)
    /\ ~\E d \in Callers : pc[d] \in {"create", "spawn"} /\ waitingPlayer[d] = a

(* nothing but the arrival of a new caller can happen *)
AtRest ==
    /\ \A d \in Callers :
          \/ pc[d] \in {"idle", "returned", "putbackBlocked", "requeueBlocked"}
          \/ pc[d] = "waitMatched" /\ ~MatchedChan[d]
          \/ pc[d] = "waitConcluded" /\ GameConcludedChan[d] = 0
    /\ \A g \in Games : task[g] \in {"none", "done"}

(* C5, as stated: after a failed construction the waiting entry goes back *)
(* into the slot and the second caller's request returns; so the system   *)
(* never comes to rest with a second caller still on the put-back and the *)
(* waiting entry outside the slot.                                        *)
C5_PutBackReturns ==
    \A c \in Callers :
        (pc[c] \in {"putback", "putbackBlocked"} /\ AtRest) => waitingPlayer[c] \in {mqBuf[i] : i \in 1..Len(mqBuf)}

(* C6, as stated: when a session is created for a pair, no other caller  *)
(* who began to wait before a member of the pair called is still         *)
(* unmatched.                                                            *)
C6_FirstComeFirstServed ==
    [][\A g \in Games :
          (sessions[g] = "none" /\ sessions'[g] = "running") =>
              \A a \in Callers \ {g[1], g[2]} : \A b \in {g[1], g[2]} :
                  ~(Unmatched(a) /\ began[a] < b)]_vars

(* C7, as stated: there is never one unmatched caller in the slot and    *)
(* another one parked trying to enter it.                                *)
C7_OneWaiter == ~(Len(mqBuf) = 1 /\ Len(mqSendq) >= 1)

Results(c) == SelectSeq(tcpOut[c], LAMBDA m : m.Type = "game_over_results")

C9_MatchedCallersReturn ==
    \A c \in Callers : InSession(c) ~> (pc[c] = "returned")

(* both requests returned although the session never handed over results *)
C9_Witness ==
    \E g \in Games :
        /\ sessions[g] = "running"
        /\ task[g] = "done"
        /\ pc[g[1]] = "returned" /\ pc[g[2]] = "returned"


(* ------------------------------------------------------------------ *)
(* Properties of the client                                            *)
(* ------------------------------------------------------------------ *)
(* C10, as stated: once the listener has read a command-ack for sequence *)
(* number n, command n is not in the unacknowledged table any more, it   *)
(* is not written again, and no give-up message is shown for it.         *)
C10_AckedCommandReleased ==
    [][\A n \in acked :
          /\ n \notin DOMAIN unacknowledgedDeployCommands'
          /\ transmissions'[n] = transmissions[n]
          /\ (n \in failures' => n \in failures)]_vars

(* C11, as stated: every command that is in the unacknowledged table     *)
(* eventually leaves it.                                                 *)
C11_TrackedCommandLeaves ==
    \A n \in Seqs :
        (n \in DOMAIN unacknowledgedDeployCommands) ~> (n \notin DOMAIN unacknowledgedDeployCommands)

(* no command is written more than 1 + MaxResends times, and a command   *)
(* whose give-up message was shown was written exactly that many times   *)
ResendCap ==
    \A n \in Seqs :
        /\ transmissions[n] <= 1 + MaxResends
        /\ n \in failures => transmissions[n] = 1 + MaxResends /\ n \notin DOMAIN unacknowledgedDeployCommands
        /\ n \in DOMAIN unacknowledgedDeployCommands =>
               transmissions[n] = 1 + unacknowledgedDeployCommands[n].RetryCount

(* ------------------------------------------------------------------ *)
(* Properties of the conclusion                                        *)
(* ------------------------------------------------------------------ *)
(* the opponent towers a player has destroyed *)
Felled(p) == {t \in TowerIds : OwnerOf(t) = OtherPlayer(p) /\ towers[t].destroyed}

(* the experience a player is owed for them: 200 for a king tower, 100 *)
(* for a guard tower                                                   *)
YieldOwed(p) ==
    200 * Cardinality({t \in Felled(p) : SpecOf(t) = King})
    + 100 * Cardinality({t \in Felled(p) : SpecOf(t) # King})

(* C12: when a session concludes by timeout, the player who destroyed   *)
(* strictly more opponent towers has outcome win and the other loss,    *)
(* equal counts give draw to both, and each player's experience delta   *)
(* is the sum of the yields of the opponent towers destroyed plus 30    *)
(* for a win, 10 for a draw, 0 for a loss.                              *)
C12_TimeoutOutcome ==
    (endReason = "timeout" /\ Len(resultsChan) = 1) =>
        LET r == resultsChan[1]
            n1 == Cardinality(Felled(P1))
            n2 == Cardinality(Felled(P2))
            o1 == r.Player1Result.Outcome
            o2 == r.Player2Result.Outcome
            bonus(o) == CASE o = "win" -> 30 [] o = "draw" -> 10 [] OTHER -> 0
        IN  /\ r.GameEndReason = "timeout"
            /\ n1 > n2 => o1 = "win" /\ o2 = "loss"
            /\ n2 > n1 => o1 = "loss" /\ o2 = "win"
            /\ n1 = n2 => o1 = "draw" /\ o2 = "draw"
            /\ r.Player1Result.EXPChange = YieldOwed(P1) + bonus(o1)
            /\ r.Player2Result.EXPChange = YieldOwed(P2) + bonus(o2)

(* the deadline passed with two towers destroyed against one *)
C12_Witness ==
    /\ endReason = "timeout"
    /\ Len(resultsChan) = 1
    /\ Cardinality(Felled(P1)) = 2
    /\ Cardinality(Felled(P2)) = 1
    /\ resultsChan[1].Player1Result.Outcome = "win"
    /\ resultsChan[1].Player1Result.EXPChange = 230
    /\ resultsChan[1].Player2Result.Outcome = "loss"
    /\ resultsChan[1].Player2Result.EXPChange = 100

(* a king tower falls in this step *)
KingFalls(k) == SpecOf(k) = King /\ towers[k].hp > 0 /\ towers'[k].hp = 0

(* C13: when a troop attack brings a king tower's HP to 0, the session   *)
(* concludes in that same tick with end reason king_tower_destroyed, the *)
(* owner of the surviving king tower wins and the owner of the destroyed *)
(* one loses; no tower attack and no snapshot follows the hit in that    *)
(* tick, and once the session has concluded no attack, regeneration or   *)
(* command changes anything.                                             *)
C13_KingTowerEndsSession ==
    [][/\ \A k \in TowerIds : KingFalls(k) =>
             /\ towers'[k].destroyed
             /\ ~isGameOver /\ isGameOver' /\ loopDone'
             /\ endReason' = "king_tower_destroyed"
             /\ Len(resultsChan') = 1
             /\ resultsChan'[1].GameEndReason = "king_tower_destroyed"
             /\ resultsChan'[1].OverallWinnerID = OtherPlayer(OwnerOf(k))
             /\ (IF OwnerOf(k) = P1 THEN resultsChan'[1].Player1Result
                                    ELSE resultsChan'[1].Player2Result).Outcome = "loss"
             /\ (IF OwnerOf(k) = P1 THEN resultsChan'[1].Player2Result
                                    ELSE resultsChan'[1].Player1Result).Outcome = "win"
             /\ troopObj' = troopObj
             /\ activeTroops' = activeTroops
             /\ lastTowerAttack' = lastTowerAttack
             /\ snapshot' = NoSnapshot
       /\ isGameOver =>
             /\ mana' = mana /\ towers' = towers /\ troopObj' = troopObj
             /\ activeTroops' = activeTroops /\ deployedTroops' = deployedTroops
             /\ lastTroopAttack' = lastTroopAttack /\ lastTowerAttack' = lastTowerAttack
             /\ lastManaRegen' = lastManaRegen /\ processed' = processed
             /\ quit' = quit /\ playerActions' = playerActions
             /\ isGameOver' /\ endReason' = endReason /\ resultsChan' = resultsChan]_vars

(* player 2's king tower fell while a command was still waiting in the *)
(* channel                                                             *)
C13_Witness ==
    /\ towers[<<P2, King>>].hp = 0
    /\ endReason = "king_tower_destroyed"
    /\ loopDone
    /\ Len(playerActions) > 0

(* C14: per session the concluding step (outcome, experience update,   *)
(* one result record handed to the results channel, listener closed)   *)
(* runs at most once, and the terminal flag isGameOver, once true, is  *)
(* never reset.                                                        *)
C14_ConcludesOnce ==
    [][/\ isGameOver => isGameOver'
       /\ concludeCount' <= 1
       /\ Len(resultsChan') <= 1
       /\ concludeCount' # concludeCount =>
             /\ ~isGameOver /\ isGameOver'
             /\ concludeCount' = 1
             /\ Len(resultsChan') = 1
             /\ ~udpOpen'
       /\ concludeCount' = concludeCount =>
             /\ isGameOver' = isGameOver
             /\ account' = account
             /\ resultsChan' = resultsChan
             /\ endReason' = endReason]_vars

(* the session has concluded with a command still waiting in its channel *)
C14_Witness ==
    /\ isGameOver
    /\ concludeCount = 1
    /\ Len(resultsChan) = 1
    /\ ~udpOpen
    /\ Len(playerActions) > 0

(* the command at the head of the channel is a fresh deploy of a player *)
(* that names an unknown troop or costs more mana than the player has   *)
RejectedAtHead ==
    LET msg == Head(playerActions)
    IN  /\ msg.sid = SessionID
        /\ msg.type = "deploy_troop"
        /\ msg.token \in Players
        /\ msg.seq \notin processed[msg.token]
        /\ \/ msg.troop \notin DOMAIN ConfigTroops
           \/ mana[msg.token] < ConfigTroops[msg.troop].ManaCost

(* C15: a deploy command that names an unknown troop id, or whose troop  *)
(* costs more mana than the issuing player has, changes no session state *)
(* (mana, troop collections, tower HP, processed-sequence table) and an  *)
(* error game-event is sent to the issuing player and to nobody else.    *)
C15_RejectedDeploy ==
    [][(Handling /\ RejectedAtHead) =>
          /\ mana' = mana
          /\ troopObj' = troopObj
          /\ activeTroops' = activeTroops
          /\ deployedTroops' = deployedTroops
          /\ towers' = towers
          /\ processed' = processed
          /\ sent' # {}
          /\ \A e \in sent' :
                e.kind = "game_event" /\ e.event = "Error" /\ e.to = Head(playerActions).token]_vars

(* the second cost-3 deploy of player 1 was just rejected at mana 2, the *)
(* opponent's address being known to the session too                    *)
C15_Witness ==
    /\ mana[P1] = 2
    /\ processed[P1] = {1}
    /\ sent = {Event(P1, "Error", NoTower, NoTroop, 3)}
    /\ activeTroops = {<<P1, 1>>}

(* the command at the head of the channel is a fresh queen deploy that *)
(* the player can pay                                                  *)
QueenAtHead ==
    LET msg == Head(playerActions)
    IN  /\ msg.sid = SessionID
        /\ msg.type = "deploy_troop"
        /\ msg.token \in Players
        /\ msg.seq \notin processed[msg.token]
        /\ msg.troop = "queen"
        /\ mana[msg.token] >= ConfigTroops["queen"].ManaCost

(* the player's own towers a queen may heal *)
Healable(p) == {t \in TowerIds : OwnerOf(t) = p /\ towers[t].hp > 0 /\ towers[t].hp < TowerMaxHP(t)}

(* C16: deploying the queen with sufficient mana deducts its cost, adds  *)
(* no entry to any troop collection, and heals exactly one tower: the    *)
(* deploying player's own tower with the lowest HP among those with      *)
(* 0 < HP < max HP, by min(300, max HP - HP); with no such tower the     *)
(* mana is still deducted, no tower's HP changes and the heal event      *)
(* carries no tower id.                                                  *)
C16_QueenHeals ==
    [][(Handling /\ QueenAtHead) =>
          LET p == Head(playerActions).token
              heals == {e \in sent' : e.kind = "game_event" /\ e.event = "QueenHeal"}
              changed == {t \in TowerIds : towers'[t] # towers[t]}
          IN  /\ mana' = [mana EXCEPT ![p] = @ - ConfigTroops["queen"].ManaCost]
              /\ troopObj' = troopObj
              /\ activeTroops' = activeTroops
              /\ deployedTroops' = deployedTroops
              /\ heals # {}
              /\ IF Healable(p) = {}
                 THEN /\ changed = {}
                      /\ \A e \in heals : e.tower = NoTower
                 ELSE \E t \in Healable(p) :
                        /\ \A u \in Healable(p) : towers[t].hp <= towers[u].hp
                        /\ changed = {t}
                        /\ towers'[t].destroyed = towers[t].destroyed
                        /\ towers'[t].hp - towers[t].hp =
                              (IF TowerMaxHP(t) - towers[t].hp < 300
                               THEN TowerMaxHP(t) - towers[t].hp ELSE 300)
                        /\ \A e \in heals : e.tower = t]_vars

(* a queen has just brought player 1's damaged first guard tower from *)
(* 140 back to its maximum of 300, a heal of 160                      *)
C16_Witness ==
    /\ towers[<<P1, Guard1>>].hp = 300
    /\ mana[P1] = 1
    /\ Event(P1, "QueenHeal", <<P1, Guard1>>, NoTroop, 160) \in sent
    /\ activeTroops = {<<P2, 1>>}
    /\ processed[P1] = {1}

(* C17: a troop whose HP reaches 0 from a tower hit is taken out of the  *)
(* session's troop map and of its owner's troop collection within the    *)
(* same tick: at the end of every step, and in every broadcast snapshot, *)
(* no troop with HP <= 0 is present, the two collections hold the same   *)
(* troops, and a troop that has left them never comes back.              *)
C17_DeadTroopsRemoved ==
    [][/\ \A t \in activeTroops' : troopObj'[t].hp > 0
       /\ activeTroops' = deployedTroops'[P1] \cup deployedTroops'[P2]
       /\ DOMAIN troopObj' = activeTroops'
       /\ \A x \in snapshot'.troops : x[1] \in activeTroops' /\ x[2] > 0
       /\ \A t \in DOMAIN lastTroopAttack : t \notin activeTroops => t \notin activeTroops'
       /\ \A e \in sent' : e.event = "TroopDefeated" =>
             e.troop \in activeTroops /\ e.troop \notin activeTroops']_vars

(* the tick in which player 1's troop was defeated has just broadcast a *)
(* snapshot without it                                                  *)
C17_Witness ==
    /\ \E e \in sent : e.event = "TroopDefeated" /\ e.troop = <<P1, 1>>
    /\ <<P1, 1>> \in DOMAIN lastTroopAttack
    /\ snapshot # NoSnapshot
    /\ snapshot.troops = {}
    /\ activeTroops = {}

(* C18: in every reachable state every tower's current HP is between 0 *)
(* and its max HP, across any sequence of troop hits and queen heals.  *)
C18_TowerHPInRange ==
    \A t \in TowerIds : towers[t].hp >= 0 /\ towers[t].hp <= TowerMaxHP(t)

(* player 1's first guard tower was hit (300 to 140), healed by a queen *)
(* (clamped at 300) and hit again (140)                                 *)
C18_Witness ==
    /\ now = 8
    /\ towers[<<P1, Guard1>>].hp = 140
    /\ processed[P1] = {1}
    /\ \E e \in sent : e.event = "TowerDamaged" /\ e.tower = <<P1, Guard1>>

(* C19: whenever a troop hit brings a tower's HP to 0, in that same step *)
(* the tower's destroyed flag is set and a destroyed event is emitted;   *)
(* from then on the tower is never a troop's target, never attacks a     *)
(* troop and is never healed: its HP stays 0 and its flag stays set.     *)
C19_DestroyedStaysDestroyed ==
    [][\A t \in TowerIds :
          /\ towers'[t].destroyed <=> towers'[t].hp = 0
          /\ (towers[t].hp > 0 /\ towers'[t].hp = 0) =>
                \E e \in sent' : e.event = "TowerDestroyed" /\ e.tower = t
          /\ towers[t].hp = 0 =>
                /\ towers'[t] = towers[t]
                /\ lastTowerAttack'[GameSpecificID(t)] = lastTowerAttack[GameSpecificID(t)]
                /\ \A e \in sent' : e.tower # t]_vars

(* player 1's first guard tower is destroyed and the queen that player 1 *)
(* has just deployed healed nothing                                      *)
C19_Witness ==
    /\ towers[<<P1, Guard1>>].hp = 0
    /\ towers[<<P1, Guard1>>].destroyed
    /\ \E e \in sent : e.event = "QueenHeal" /\ e.tower = NoTower
    /\ \E q \in processed[P1] : Ack(P1, q) \in sent

(* ------------------------------------------------------------------ *)
(* Properties of CalculateDamage                                       *)
(* ------------------------------------------------------------------ *)
Max0(x) == IF x < 0 THEN 0 ELSE x

(* floor(a * 1.2): the greatest integer not above the product *)
Floor12(a) == (a * 12) \div 10

(* the call drew a critical hit: a tower attacks and the draw is below the chance *)
CritHit == calc.isTowerAttack /\ calc.draw < calc.chance

(* C20 as stated: for all integer ATK and DEF the damage is non-negative, *)
(* max(0, ATK - DEF) without a critical hit, max(0, floor(ATK * 1.2) -    *)
(* DEF) with one, and a troop attack never deals critical damage          *)
C20_DamageAsStated ==
    calc.done =>
        /\ calc.dmg >= 0
        /\ ~CritHit => calc.dmg = Max0(calc.atk - calc.def)
        /\ CritHit => calc.dmg = Max0(Floor12(calc.atk) - calc.def)
        /\ ~calc.isTowerAttack => calc.dmg = Max0(calc.atk - calc.def)

(* C20 amended: the same, with the product of a critical hit rounded      *)
(* toward zero, which is floor(ATK * 1.2) exactly when ATK is not negative *)
C20_DamageTruncated ==
    calc.done =>
        /\ calc.dmg >= 0
        /\ ~CritHit => calc.dmg = Max0(calc.atk - calc.def)
        /\ CritHit /\ calc.atk >= 0 => calc.dmg = Max0(Floor12(calc.atk) - calc.def)
        /\ CritHit /\ calc.atk < 0 =>
               calc.dmg = Max0(0 - Floor12(0 - calc.atk) - calc.def)
        /\ ~calc.isTowerAttack => calc.dmg = Max0(calc.atk - calc.def)

(* a critical hit of 6 against 2 deals floor(7.2) - 2 *)
C20_Witness ==
    /\ calc.done
    /\ CritHit
    /\ calc.atk = 6
    /\ calc.def = 2
    /\ calc.chance = 5
    /\ calc.dmg = 5

(* ------------------------------------------------------------------ *)
(* Properties of UpdatePlayerAfterGame                                 *)
(* ------------------------------------------------------------------ *)
(* the requirements of the levels from..(to - 1), added up *)
RECURSIVE Consumed(_, _)
Consumed(from, to) ==
    IF from >= to THEN 0 ELSE calculateExpForNextLevel(from) + Consumed(from + 1, to)

(* C21: level 1 to 2 takes 100 EXP and level 2 to 3 takes 110; after one  *)
(* call with a non-negative award, 0 <= EXP < requirement of the new      *)
(* level, the level has not decreased, the old EXP plus the award is the  *)
(* sum of the requirements of the levels consumed plus the new EXP, and   *)
(* the flag returned is true exactly when the level increased.            *)
C21_LevelUps ==
    /\ calculateExpForNextLevel(1) = 100
    /\ calculateExpForNextLevel(2) = 110
    /\ upd.done =>
          /\ 0 <= upd.EXP
          /\ upd.EXP < calculateExpForNextLevel(upd.Level)
          /\ upd.Level >= upd.acc.Level
          /\ upd.acc.EXP + upd.expGained = Consumed(upd.acc.Level, upd.Level) + upd.EXP
          /\ upd.didLevelUp <=> upd.Level > upd.acc.Level

(* 50 EXP at level 1 and an award of 210: two level-ups, 50 EXP carried *)
C21_Witness ==
    /\ upd.done
    /\ upd.acc = [EXP |-> 50, Level |-> 1]
    /\ upd.expGained = 210
    /\ upd.Level = 3
    /\ upd.EXP = 50
    /\ upd.didLevelUp

(* ------------------------------------------------------------------ *)
(* Properties of the datagram reader                                   *)
(* ------------------------------------------------------------------ *)
(* a message of another session, or of a token that is neither player's *)
Stray(m) == m.sid # SessionID \/ m.token \notin Players

(* the reader has just queued a message *)
Queued == Len(playerActions') = Len(playerActions) + 1

(* C22: a message whose session id is not the session's, or whose token  *)
(* is neither player's, is dropped: reading it and handling it leave     *)
(* mana, troops, towers, quit flags, the processed table and the return  *)
(* addresses of the two players as they were, and the loop keeps running *)
C22_StrayDropped ==
    [][/\ (Queued /\ Stray(playerActions'[Len(playerActions')])) =>
            /\ \A p \in Players : addrs'[p] = addrs[p]
            /\ UNCHANGED <<mana, towers, troopObj, activeTroops, deployedTroops, quit,
                           processed, loopDone>>
       /\ (Handling /\ Stray(Head(playerActions))) =>
            /\ \A p \in Players : addrs'[p] = addrs[p]
            /\ UNCHANGED <<mana, towers, troopObj, activeTroops, deployedTroops, quit,
                           processed, loopDone>>]_vars

(* the same without the return addresses: what the handler leaves alone *)
StrayHandled ==
    [][(Handling /\ Stray(Head(playerActions))) =>
            UNCHANGED <<mana, towers, troopObj, activeTroops, deployedTroops, quit,
                        processed, loopDone, addrs>>]_vars

(* ------------------------------------------------------------------ *)
(* Properties of the cleanup                                           *)
(* ------------------------------------------------------------------ *)
(* GetSession(gameID) reports the session present *)
Present(g) == sessions[g] # "none"

(* the session of game g has concluded, its results have been delivered *)
(* and both of its callers have returned                                *)
CleanupComplete(g) ==
    /\ sessions[g] = "over"
    /\ task[g] = "done"
    /\ pc[g[1]] = "returned"
    /\ pc[g[2]] = "returned"

(* C23: once a session has reached its terminal condition and cleanup has *)
(* completed, a lookup of its id in the session registry reports it       *)
(* absent.                                                                *)
C23_SessionReleased == \A g \in Games : CleanupComplete(g) => ~Present(g)

(* the other half of the cleanup: a concluded session has closed its *)
(* UDP listener                                                      *)
ListenerClosed == isGameOver => ~udpOpen

(* ------------------------------------------------------------------ *)
(* Properties of the targeting rules                                   *)
(* ------------------------------------------------------------------ *)
(* the opponent's troops with HP > 0 in the call followed *)
LiveTroops == {t \in find.dep[OpponentOf(find.id)] : find.tr[t].hp > 0}

(* C24: a tower's target is the opponent's live troop with the earliest  *)
(* deployment timestamp and, among several with that timestamp, the one  *)
(* with the smallest instance id; there is no target exactly when no     *)
(* opposing troop is alive.                                              *)
C24_OldestTroopTargeted ==
    (find.fn = "FindTroopToAttack" /\ find.done) =>
        /\ find.troop = NoTroop <=> LiveTroops = {}
        /\ find.troop # NoTroop =>
              /\ find.troop \in LiveTroops
              /\ \A u \in LiveTroops :
                    \/ find.tr[find.troop].deployedAt < find.tr[u].deployedAt
                    \/ /\ find.tr[find.troop].deployedAt = find.tr[u].deployedAt
                       /\ find.troop[2] <= u[2]

(* the same without the tie-break: the target is a live troop none is older than *)
OldestTroopTargeted ==
    (find.fn = "FindTroopToAttack" /\ find.done) =>
        /\ find.troop = NoTroop <=> LiveTroops = {}
        /\ find.troop # NoTroop =>
              /\ find.troop \in LiveTroops
              /\ \A u \in LiveTroops : find.tr[find.troop].deployedAt <= find.tr[u].deployedAt

(* the opponent's towers with HP > 0 in the call followed *)
LiveTowers == {t \in TowerIds : OwnerOf(t) = OpponentOf(find.id) /\ find.tw[t].hp > 0}

(* C25: once the opponent's first guard tower has HP 0, a troop's target *)
(* is a tower of minimal HP among the opponent's towers with HP > 0, and *)
(* there is no target exactly when every opponent tower has HP 0.        *)
C25_LowestHPTowerTargeted ==
    (/\ find.fn = "FindLowestHPTower"
     /\ find.done
     /\ find.tw[<<OpponentOf(find.id), Guard1>>].hp = 0) =>
        /\ find.tower = NoTower <=> LiveTowers = {}
        /\ find.tower # NoTower =>
              /\ find.tower \in LiveTowers
              /\ \A u \in LiveTowers : find.tw[find.tower].hp <= find.tw[u].hp

(* first guard tower down, king tower at 100 and second guard tower at  *)
(* 200, the king tower standing first in the slice or last: the king     *)
(* tower is the target                                                   *)
C25_Witness ==
    /\ find.fn = "FindLowestHPTower"
    /\ find.done
    /\ find.id = P1
    /\ find.order[P2] = <<Guard2, Guard1, King>>
    /\ find.tw[<<P2, Guard1>>].hp = 0
    /\ find.tw[<<P2, Guard2>>].hp = 200
    /\ find.tw[<<P2, King>>].hp = 100
    /\ find.tower = <<P2, King>>

(* ------------------------------------------------------------------ *)
(* Properties of the command channel                                   *)
(* ------------------------------------------------------------------ *)
(* the reader has taken a datagram off the socket *)
Reading == recvLeft' = recvLeft - 1

(* C26: the reader never blocks on the command channel: the channel     *)
(* never holds more than 10 messages; a message read while it holds 10  *)
(* is discarded and the queued messages stay as they are, in order; a   *)
(* message read while there is room goes to the back; and with a full   *)
(* channel the reader can still take the next datagram.                 *)
C26_ReaderNeverBlocks ==
    [][/\ Len(playerActions') <= 10
       /\ (Reading /\ Len(playerActions) = 10) => playerActions' = playerActions
       /\ (Reading /\ Len(playerActions) < 10) =>
             \E m \in net : playerActions' = Append(playerActions, m)
       /\ (Len(playerActions') = 10 /\ udpOpen' /\ recvLeft' > 0) => (ENABLED Receive)']_vars

(* eleven datagrams read before the loop took any: ten queued, one dropped *)
C26_Witness ==
    /\ Len(playerActions) = 10
    /\ recvLeft = QueueRecv - 11
    /\ now = 0
    /\ addrs[P1] = AddrOf(P1)
    /\ addrs[P2] = AddrOf(P2)

(* ------------------------------------------------------------------ *)
(* Properties of the tick                                              *)
(* ------------------------------------------------------------------ *)
(* the loop runs a tick: only a tick moves the clock *)
Ticking == now' # now

(* what a tick that resolves the match by timeout does and leaves alone *)
TimeoutTick ==
    /\ isGameOver'
    /\ endReason' = "timeout"
    /\ loopDone'
    /\ snapshot' = NoSnapshot
    /\ UNCHANGED <<mana, lastManaRegen, towers, troopObj, activeTroops, deployedTroops,
                   lastTroopAttack, lastTowerAttack>>

Regenerating == lastManaRegen' # lastManaRegen

(* C28: mana is regenerated at most once per 2 seconds since the previous *)
(* regeneration; a regeneration raises each player whose mana is below 10 *)
(* by exactly 1 and leaves a player at 10 as it is, both players in the   *)
(* same tick; mana rises in no other step.                                *)
C28_ManaRegeneration ==
    [][/\ Regenerating =>
             /\ Ticking
             /\ lastManaRegen' = now'
             /\ lastManaRegen' - lastManaRegen >= 4
             /\ \A p \in Players :
                   mana'[p] = IF mana[p] < 10 THEN mana[p] + 1 ELSE mana[p]
       /\ ~Regenerating => \A p \in Players : mana'[p] <= mana[p]]_vars

(* a regeneration that found player 1 at the cap and player 2, who had *)
(* just paid for a queen, below it                                     *)
C28_Witness ==
    /\ now = 24
    /\ lastManaRegen = 24
    /\ mana[P1] = 10
    /\ mana[P2] = 6
    /\ processed[P2] = {1}

(* ------------------------------------------------------------------ *)
(* Properties of the attack cadence                                    *)
(* ------------------------------------------------------------------ *)
(* a tick that runs the attack passes *)
AttackTick == Ticking /\ ~isGameOver /\ now' <= MatchDuration

(* the step in which troop tid damages a tower, tower tw a troop *)
TroopDamages(tid) == \E e \in sent' : e.event = "TowerDamaged" /\ e.troop = tid
TowerDamages(tw) == \E e \in sent' : e.event \in {"TroopDamaged", "CritHit"} /\ e.tower = tw

(* the cadence check of troop tid, of tower tw, is due in this tick *)
TroopDue(tid) ==
    /\ AttackTick
    /\ tid \in activeTroops
    /\ troopObj[tid].hp > 0
    /\ now' - lastTroopAttack[tid] >= 4
TowerDue(tw) ==
    /\ AttackTick
    /\ towers'[tw].hp > 0
    /\ now' - lastTowerAttack[GameSpecificID(tw)] >= 4

(* the attack timers move only to the time of a tick, a new troop's timer *)
(* starts at its deployment, and whoever deals damage does so 2 seconds   *)
(* or more after its timer was last set                                   *)
CadenceKept ==
    /\ \A tid \in DOMAIN lastTroopAttack' :
          /\ tid \notin DOMAIN lastTroopAttack =>
                lastTroopAttack'[tid] = now' /\ troopObj'[tid].deployedAt = now' /\ ~Ticking
          /\ tid \in DOMAIN lastTroopAttack =>
                \/ lastTroopAttack'[tid] = lastTroopAttack[tid]
                \/ lastTroopAttack'[tid] = now' /\ Ticking
          /\ TroopDamages(tid) =>
                /\ TroopDue(tid)
                /\ now' - troopObj[tid].deployedAt >= 4
    /\ \A tw \in TowerIds :
          /\ \/ lastTowerAttack'[GameSpecificID(tw)] = lastTowerAttack[GameSpecificID(tw)]
             \/ lastTowerAttack'[GameSpecificID(tw)] = now' /\ Ticking
          /\ TowerDamages(tw) => TowerDue(tw)

(* C29 as stated: a troop deals no damage earlier than 2 seconds after its *)
(* deployment, every troop and every live tower deals damage at most once  *)
(* in any 2-second interval, and the last-attack time is reset whenever    *)
(* the cadence check fires, whatever the attack did.                       *)
C29_AttackCadence ==
    [][/\ CadenceKept
       /\ \A tid \in activeTroops : TroopDue(tid) => lastTroopAttack'[tid] = now'
       /\ \A tw \in TowerIds : TowerDue(tw) => lastTowerAttack'[GameSpecificID(tw)] = now']_vars

(* C29 amended: the same, the reset being made in every tick that does not *)
(* end the session: the hit that destroys a king tower ends the tick       *)
(* before the troop's timer is set and before any later check is made.     *)
C29_AttackCadenceWhileRunning ==
    [][/\ CadenceKept
       /\ \A tid \in activeTroops :
             (TroopDue(tid) /\ ~isGameOver') => lastTroopAttack'[tid] = now'
       /\ \A tw \in TowerIds :
             (TowerDue(tw) /\ ~isGameOver') => lastTowerAttack'[GameSpecificID(tw)] = now']_vars

(* a troop's second hit, 4 seconds after its deployment, in a tick in *)
(* which a tower without a target had its timer reset too             *)
C29_Witness ==
    /\ ~isGameOver
    /\ \E tid \in activeTroops :
          /\ now = troopObj[tid].deployedAt + 8
          /\ lastTroopAttack[tid] = now
          /\ \E e \in sent : e.event = "TowerDamaged" /\ e.troop = tid
          /\ deployedTroops[troopObj[tid].owner] = {tid}
          /\ deployedTroops[OtherPlayer(troopObj[tid].owner)] = {}
          /\ \A tw \in TowerIds : towers[tw].hp > 0 => lastTowerAttack[GameSpecificID(tw)] = now

(* ------------------------------------------------------------------ *)
(* Properties of the rendezvous                                        *)
(* ------------------------------------------------------------------ *)
(* caller d took c out of the queue, created the session of the pair *)
(* and has been through both match notifications                     *)
MatchedBy(c, d) ==
    /\ d # c
    /\ waitingPlayer[d] = c
    /\ sessions[<<c, d>>] # "none"

(* C30: a caller waiting in the queue passes the waiting-for-match point *)
(* only after another caller has taken it out, created a session for the *)
(* pair and attempted the match notification to both players; its signal *)
(* is given by that caller, at that point, and by no one whose session   *)
(* creation failed.                                                      *)
C30_PassesOnlyWhenMatched ==
    [][\A c \in Callers :
          /\ (pc[c] = "waitMatched" /\ pc'[c] # "waitMatched") =>
                /\ pc'[c] = "waitConcluded"
                /\ \E d \in Callers :
                      MatchedBy(c, d) /\ pc[d] \in {"waitConcluded", "returned"}
          /\ (MatchedChan'[c] /\ ~MatchedChan[c]) =>
                \E d \in Callers :
                   /\ MatchedBy(c, d)
                   /\ pc[d] = "closeMatched"
                   /\ pc'[d] = "waitConcluded"]_vars

(* caller 1 waited, caller 2 took it and failed to create the session,  *)
(* put it back and returned; caller 3 matched it, and caller 1 has now  *)
(* passed the waiting-for-match point                                   *)
C30_Witness ==
    /\ pc[1] = "waitConcluded"
    /\ pc[2] = "returned"
    /\ waitingPlayer[2] = 1
    /\ sessions[<<1, 2>>] = "none"
    /\ waitingPlayer[3] = 1
    /\ sessions[<<1, 3>>] # "none"
    /\ Len(tcpOut[1]) > 0
    /\ Len(tcpOut[3]) > 0

(* ------------------------------------------------------------------ *)
(* Properties of the conclusion                                        *)
(* ------------------------------------------------------------------ *)
OutcomePairs == {<<"win", "loss">>, <<"loss", "win">>, <<"draw", "draw">>}

KingDestroyed(p) == towers[<<p, King>>].destroyed

(* the cases the conclusion cannot decide *)
Ambiguous ==
    \/ endReason = "king_tower_destroyed" /\ (KingDestroyed(P1) <=> KingDestroyed(P2))
    \/ endReason = "player_quit" /\ quit[P1] /\ quit[P2]
    \/ endReason \notin {"king_tower_destroyed", "timeout", "player_quit"}

(* C31: whenever a session has concluded, for any end reason, the two     *)
(* players' outcomes are one of (win, loss), (loss, win), (draw, draw);   *)
(* the winner id reported to both players names the player whose outcome  *)
(* is win and is empty exactly when both outcomes are draw; with both or  *)
(* neither king tower destroyed, with both players having quit, or with   *)
(* an unknown reason, both outcomes are draw.                             *)
C31_OutcomePairs ==
    \A i \in 1..Len(resultsChan) :
        LET r == resultsChan[i]
            o == <<r.Player1Result.Outcome, r.Player2Result.Outcome>>
        IN  /\ o \in OutcomePairs
            /\ r.Player1Result.WinnerID = r.Player2Result.WinnerID
            /\ o[1] = "win" => r.Player1Result.WinnerID = P1
            /\ o[2] = "win" => r.Player1Result.WinnerID = P2
            /\ r.Player1Result.WinnerID = "" <=> o = <<"draw", "draw">>
            /\ Ambiguous => o = <<"draw", "draw">>

(* both players quit, both king towers stand, and the session concluded *)
(* for the quit                                                         *)
C31_Witness ==
    /\ isGameOver
    /\ endReason = "player_quit"
    /\ quit[P1] /\ quit[P2]
    /\ Len(resultsChan) = 1
    /\ resultsChan[1].Player1Result.Outcome = "draw"
    /\ resultsChan[1].OverallWinnerID = ""

(* ------------------------------------------------------------------ *)
(* Properties of the client's sequence numbers                         *)
(* ------------------------------------------------------------------ *)
(* the numbers some command has carried or still holds *)
HandedOut ==
    allocated \cup DOMAIN unacknowledgedDeployCommands \cup acked \cup failures
        \cup {n \in Seqs : transmissions[n] > 0}

(* a call of SendDeployTroopCommand has just taken the number n *)
Takes(n) == n \in allocated' /\ n \notin allocated

(* C32: under any interleaving of SendDeployTroopCommand calls on one     *)
(* client the counter starts at 1; a call that takes a number takes the   *)
(* counter's value, which no command has held before, and leaves the      *)
(* counter one higher, so the numbers are distinct and strictly           *)
(* increasing in allocation order; every tracked command, and with it     *)
(* every retransmission, carries the number it was allocated.             *)
C32_DistinctSequenceNumbers ==
    /\ nextSequenceNumber = 1
    /\ [](\A n \in HandedOut : n < nextSequenceNumber)
    /\ [](\A n \in DOMAIN unacknowledgedDeployCommands :
             unacknowledgedDeployCommands[n].Message.Seq = n)
    /\ [][\A n \in Seqs : Takes(n) =>
              /\ n = nextSequenceNumber
              /\ n \notin HandedOut
              /\ nextSequenceNumber' = n + 1]_vars
    /\ [][\A n \in Seqs : transmissions'[n] > transmissions[n] =>
              \/ n \in allocated
              \/ n \in DOMAIN unacknowledgedDeployCommands
                    /\ unacknowledgedDeployCommands[n].Message.Seq = n]_vars

(* the first command has been retransmitted while the second call holds *)
(* its number and has not written yet                                   *)
C32_Witness ==
    /\ nextSequenceNumber = 3
    /\ allocated = {2}
    /\ 1 \in DOMAIN unacknowledgedDeployCommands
    /\ unacknowledgedDeployCommands[1].RetryCount >= 1
    /\ transmissions[1] >= 2

(* ------------------------------------------------------------------ *)
(* Properties of the troop collections                                 *)
(* ------------------------------------------------------------------ *)
(* C33: in every reachable state the centralized troop map holds exactly *)
(* the troops of the two players' collections: a troop instance id is in *)
(* the centralized map if and only if it is in its owner's collection,   *)
(* and it is never in the other player's collection.                     *)
C33_TroopMapsAgree ==
    /\ \A p \in Players : \A id \in deployedTroops[p] :
           id \in DOMAIN troopObj /\ troopObj[id].owner = p
    /\ \A id \in activeTroops :
           /\ id \in DOMAIN troopObj
           /\ id \in deployedTroops[troopObj[id].owner]
           /\ id \notin deployedTroops[OpponentOf(troopObj[id].owner)]
    /\ deployedTroops[P1] \cap deployedTroops[P2] = {}
    /\ activeTroops = deployedTroops[P1] \cup deployedTroops[P2]

(* a troop is on the board, in the centralized map and in its owner's *)
(* collection, after an earlier troop was defeated and taken out of   *)
(* both                                                               *)
C33_Witness ==
    /\ activeTroops # {}
    /\ \E p \in Players : deployedTroops[p] = activeTroops
    /\ nextTroop > 1 + Cardinality(activeTroops)

(* ------------------------------------------------------------------ *)
(* Properties of the king towers                                       *)
(* ------------------------------------------------------------------ *)
(* a live troop whose 2-second interval has run out *)
DueTroop(id) == troopObj[id].hp > 0 /\ now - lastTroopAttack[id] >= AttackInterval

(* C34: in every reachable state of a session at most one of the two king *)
(* towers is destroyed, and no session has concluded for a king tower     *)
(* with both king towers destroyed.                                       *)
C34_OneKingFalls ==
    /\ ~(towers[<<P1, King>>].destroyed /\ towers[<<P2, King>>].destroyed)
    /\ ~(towers[<<P1, King>>].hp = 0 /\ towers[<<P2, King>>].hp = 0)
    /\ endReason = "king_tower_destroyed" =>
          \A i \in 1..Len(resultsChan) : resultsChan[i].OverallWinnerID # ""

(* a king tower fell and the session concluded in the tick in which a *)
(* troop of the other side was due to attack the other king tower,    *)
(* which stands                                                       *)
C34_Witness ==
    \E p \in Players :
        /\ isGameOver
        /\ endReason = "king_tower_destroyed"
        /\ towers[<<p, King>>].destroyed
        /\ ~towers[<<OpponentOf(p), King>>].destroyed
        /\ \E id \in deployedTroops[p] :
              /\ DueTroop(id)
              /\ FindLowestHPTower(p, towers, towerOrder) = <<OpponentOf(p), King>>

(* ------------------------------------------------------------------ *)
(* Properties of a concluded session                                   *)
(* ------------------------------------------------------------------ *)
(* a deploy command that would spawn a troop if it were handled now *)
Affordable(msg) ==
    /\ msg.sid = SessionID
    /\ msg.type = "deploy_troop"
    /\ msg.token \in Players
    /\ msg.seq \notin processed[msg.token]
    /\ msg.troop \in DOMAIN ConfigTroops
    /\ mana[msg.token] >= ConfigTroops[msg.troop].ManaCost

(* C35: once the terminal flag is set the loop has returned and the      *)
(* socket is closed, and no later step changes a player's mana, a        *)
(* tower's HP or destroyed flag, the troop collections, the quit flags   *)
(* or the processed-sequence table, or sends a command-ack: a deploy or  *)
(* quit command that arrives or is still queued has no effect.           *)
C35_FrozenAfterConclusion ==
    /\ [](isGameOver => loopDone /\ ~udpOpen)
    /\ [][isGameOver =>
            /\ isGameOver'
            /\ mana' = mana
            /\ towers' = towers
            /\ troopObj' = troopObj
            /\ activeTroops' = activeTroops
            /\ deployedTroops' = deployedTroops
            /\ quit' = quit
            /\ processed' = processed
            /\ \A e \in sent' : e.kind # "command_ack"]_vars

(* the session concluded with an affordable deploy command still queued *)
(* and another command on its way to the socket                         *)
C35_Witness ==
    /\ isGameOver
    /\ Len(playerActions) > 0
    /\ Affordable(Head(playerActions))
    /\ recvLeft > 0
    /\ \E m \in net : m.type = "player_quit" \/ m.type = "deploy_troop"

(* ------------------------------------------------------------------ *)
(* Properties of rejected deploy commands                              *)
(* ------------------------------------------------------------------ *)
(* the step spends mana of player p or puts a troop of p on the board *)
TakesEffect(p) == mana'[p] < mana[p] \/ deployedTroops'[p] # deployedTroops[p]

(* C36: a deploy command rejected for insufficient mana or an unknown    *)
(* troop id is not recorded in the processed-sequence table and no       *)
(* command-ack is sent for it; a fresh deploy command of a known troop   *)
(* is judged against the mana the player has when it is handled,         *)
(* whatever happened to earlier transmissions with the same number, and  *)
(* then deducts the cost and is recorded; a command takes effect only    *)
(* if its number is not yet recorded, and recorded numbers stay          *)
(* recorded, so a number takes effect at most once.                      *)
C36_RejectedCommandRetried ==
    /\ [][(Handling /\ RejectedAtHead) =>
            /\ processed' = processed
            /\ \A e \in sent' : e.kind # "command_ack"]_vars
    /\ [][(Handling /\ Affordable(Head(playerActions))) =>
            LET msg == Head(playerActions)
            IN  /\ mana'[msg.token] = mana[msg.token] - ConfigTroops[msg.troop].ManaCost
                /\ processed'[msg.token] = processed[msg.token] \cup {msg.seq}
                /\ Ack(msg.token, msg.seq) \in sent']_vars
    /\ [][\A p \in Players :
            /\ processed[p] \subseteq processed'[p]
            /\ (Handling /\ Head(playerActions).token = p /\ TakesEffect(p)) =>
                  /\ Head(playerActions).seq \notin processed[p]
                  /\ Head(playerActions).seq \in processed'[p]]_vars

(* both transmissions of the pawn command have been handled and the   *)
(* second one has just spawned the troop: the first, handled before   *)
(* the third regeneration, was rejected                               *)
C36_Witness ==
    /\ recvLeft = 0
    /\ playerActions = <<>>
    /\ processed[P1] = {1, 2}
    /\ Ack(P1, 2) \in sent
    /\ \E e \in sent : e.event = "TroopDeployed" /\ e.troop = <<P1, 1>>
    /\ now >= 3 * RegenInterval
    /\ mana[P1] = 0

(* ------------------------------------------------------------------ *)
(* Properties of the matchmaking signals                               *)
(* ------------------------------------------------------------------ *)
(* caller d executes close(waitingPlayer.MatchedChan) *)
ClosesMatched(d) == pc[d] = "closeMatched" /\ pc'[d] = "waitConcluded"

(* the result-delivery task of a game of caller c executes its deferred *)
(* close of c's channel                                                 *)
TaskCloses(c) ==
    \E g \in Games :
        \/ g[1] = c /\ task[g] = "closeP1" /\ task'[g] = "closeP2" /\ sessions[g] # "none"
        \/ g[2] = c /\ task[g] = "closeP2" /\ task'[g] = "done" /\ sessions[g] # "none"

(* caller c, whose session creation failed, closes its own channel *)
ClosesOwn(c) ==
    /\ pc[c] = "closeOwn"
    /\ pc'[c] = "returned"
    /\ \A g \in Games : g[2] = c => sessions[g] = "none"

(* C37: under any interleaving of matchmaking requests each caller's     *)
(* matched signal and game-concluded signal is closed at most once: a    *)
(* close of the matched signal finds it open and is made by the caller   *)
(* that paired with its owner; the game-concluded signal is closed by    *)
(* the result-delivery task of the owner's match or, for a second caller *)
(* whose session creation failed, by that caller itself.                 *)
C37_SignalsClosedOnce ==
    /\ [](\A c \in Callers : GameConcludedChan[c] <= 1)
    /\ [][\A d \in Callers : ClosesMatched(d) =>
              /\ ~MatchedChan[waitingPlayer[d]]
              /\ MatchedBy(waitingPlayer[d], d)]_vars
    /\ [][\A c \in Callers : (MatchedChan'[c] # MatchedChan[c]) =>
              \E d \in Callers : ClosesMatched(d) /\ waitingPlayer[d] = c]_vars
    /\ [][\A c \in Callers : (GameConcludedChan'[c] # GameConcludedChan[c]) =>
              /\ GameConcludedChan[c] = 0
              /\ TaskCloses(c) \/ ClosesOwn(c)]_vars

(* the second caller's session creation failed and it closed its own *)
(* signal; the waiting caller it put back was then paired by the     *)
(* third, and the task of that match closed both their signals       *)
C37_Witness ==
    /\ GameConcludedChan = [c \in Callers |-> IF c <= 3 THEN 1 ELSE 0]
    /\ \A g \in Games : g[2] = 2 => sessions[g] = "none"
    /\ MatchedBy(1, 3)
    /\ MatchedChan[1]
    /\ task[<<1, 3>>] = "done"

(* ------------------------------------------------------------------ *)
(* Properties of the tower instances                                   *)
(* ------------------------------------------------------------------ *)
DistinctGameSpecificIDs ==
    \A t1 \in TowerIds, t2 \in TowerIds : t1 # t2 => GameSpecificID(t1) # GameSpecificID(t2)

(* an opposing troop is alive before the tick and after it *)
HasTarget(tw) ==
    \E id \in deployedTroops[OpponentOf(OwnerOf(tw))] :
        troopObj[id].hp > 0 /\ id \in activeTroops'

(* every tower that is due in a tick and has a target attacks in it *)
EveryDueTowerAttacks ==
    \A tw \in TowerIds :
        (TowerDue(tw) /\ towers[tw].hp > 0 /\ HasTarget(tw) /\ ~isGameOver') => TowerDamages(tw)

(* C38, as stated: within one session the tower instances have pairwise  *)
(* distinct GameSpecificIDs whatever display names the (distinct) tower  *)
(* specs carry, so that each tower has its own last-attack timer and     *)
(* every live tower with a target attacks once per 2-second cadence.     *)
C38_DistinctTowerIDs ==
    /\ []DistinctGameSpecificIDs
    /\ [][EveryDueTowerAttacks]_vars

(* where the ids are distinct the towers do keep their cadence *)
C38_CadenceWhenDistinct == [][DistinctGameSpecificIDs => EveryDueTowerAttacks]_vars

(* ------------------------------------------------------------------ *)
(* Properties of the login registry                                    *)
(* ------------------------------------------------------------------ *)
(* connection c is at the check of the registry and leaves it *)
Judged(c) == conns[c].phase = "register" /\ conns'[c].phase # "register"

(* the login of c finds its username registered to another client id *)
HeldByOther(c) ==
    /\ conns[c].user \in DOMAIN activeUsers
    /\ activeUsers[conns[c].user] # conns[c].addr

(* C39: a username is registered to at most one client id, which is the  *)
(* address of the connection that registered it and is never replaced    *)
(* while registered; a registration is removed only by the Logout that   *)
(* handleConnection calls when the login-success reply cannot be sent,   *)
(* so it outlives its connection; a Login of a registered username from  *)
(* a different client id is rejected and leaves the registry unchanged,  *)
(* also after the registering player's matchmaking request has returned  *)
(* and its connection is closed.                                         *)
C39_RegistrationOutlivesConnection ==
    /\ [](\A u \in DOMAIN activeUsers :
             /\ u \in Usernames
             /\ \E c \in Conns :
                   /\ conns[c].user = u
                   /\ conns[c].addr = activeUsers[u]
                   /\ conns[c].phase \in {"reply", "matchmaking", "closed"})
    /\ [][\A u \in DOMAIN activeUsers :
            /\ u \in DOMAIN activeUsers' => activeUsers'[u] = activeUsers[u]
            /\ u \notin DOMAIN activeUsers' =>
                  \E c \in Conns :
                      /\ conns[c].phase = "reply"
                      /\ conns[c].user = u
                      /\ conns'[c].result = "reply_failed"]_vars
    /\ [][\A c \in Conns : (Judged(c) /\ HeldByOther(c)) =>
            /\ conns'[c].phase = "closed"
            /\ conns'[c].result = "already_logged_in"
            /\ activeUsers' = activeUsers]_vars

(* a player was served and its connection closed; a later login of the *)
(* same username from another address was turned away; the username is *)
(* still registered to the closed connection's address                 *)
C39_Witness ==
    \E c \in Conns, d \in Conns :
        /\ conns[c].phase = "closed"
        /\ conns[c].result = "served"
        /\ conns[d].user = conns[c].user
        /\ conns[d].addr # conns[c].addr
        /\ conns[d].result = "already_logged_in"
        /\ conns[d].holderGone
        /\ conns[c].user \in DOMAIN activeUsers
        /\ activeUsers[conns[c].user] = conns[c].addr

====
